---- MODULE Spec2Model ----
(***************************************************************************)
(* The Ralph loop (src/claude/scripts/ralph-loop.ts): a single-threaded    *)
(* orchestrator that reloads a JSON task file, reconciles and reaps its    *)
(* worker processes, starts pending tasks up to maxParallel, and resets    *)
(* running tasks to pending when it shuts down.                            *)
(*                                                                         *)
(* The task file is a document with a task array; a task is [id, status].  *)
(* Status "none" stands for a task object without a status field, "bogus"  *)
(* for an unrecognised status string.  Task ids are unique in a document   *)
(* (spec.md, section 3), so the id of the i-th task of the initial file is *)
(* i.  The form of a file is "doc" (an object with a tasks array),         *)
(* "invalid" (not JSON), "noTasks" (JSON without a tasks array) or "null"  *)
(* (the JSON value null); completedAt is "none" (no such field), "old" (a   *)
(* time stamp of an earlier run) or "new" (written by this run);           *)
(* maxParallel and checkInterval are -1 when the file has no such field    *)
(* (the values of the run then come from flags or defaults); fmt tells     *)
(*  whether the bytes are the orchestrator's*)
(* own JSON.stringify(prd, null, 2) ("pretty") or somebody else's ("orig").*)
(* A tracked worker (an entry of this.subprocesses) is "alive",        *)
(* "exit0"/"exit1" (proc.exitCode is 0 / non-zero) or "signaled" (killed   *)
(* by a signal: proc.exitCode stays null and the pid is gone); "none"      *)
(* means the id has no entry in the map.                                   *)
(*                                                                         *)
(* The Ruby variant (ralph-loop.rb) is modelled by the actions whose names  *)
(* begin with Rb, on the same variables.                                   *)
(*                                                                         *)
(* JavaScript runs handlers and child-exit notifications only when the     *)
(* loop awaits, so Interrupt and WorkerExit are enabled only at the        *)
(* await points of mainLoop (AwaitPcs).                                    *)
(***************************************************************************)
EXTENDS Integers, Sequences, FiniteSets, TLC

\* ---- bounds of the model ----
MaxTasks == 3
MaxParallel == 2
MaxDelay == 1
MaxExtWrites == 1
MaxExtTasks == 2
MaxIdLen == 2
MaxPromptLen == 2

TaskIds == 1..MaxTasks

Statuses == {"pending", "running", "completed", "failed", "none", "bogus"}

VARIABLES
    file,          \* the task file on disk
    prd,           \* this.prd, the in-memory document
    subprocesses,  \* this.subprocesses: task id -> worker state
    pc,            \* position of the orchestrator
    available,     \* local of mainLoop
    queue,         \* pendingTasks of mainLoop: ids still to visit
    tick,          \* i of the countdown loop
    shouldExit,    \* this.shouldExit
    cleaningUp,    \* this.cleaningUp
    maxParallel,   \* this.maxParallel after loadConfig
    checkDelay,    \* this.checkDelay after loadConfig
    exitCode,      \* code given to process.exit, -1 while none was given
    exitReason,    \* which process.exit call: "terminal", "signal", "crash"
    logs,          \* task ids whose log file exists in runDir
    pidFile,       \* MASTER_PID_FILE exists
    reported,      \* kinds of messages written to the terminal
    termSent,      \* workers sent SIGTERM by cleanup
    killSent,      \* workers sent SIGKILL by cleanup
    started,       \* history: tasks started in the current admission step
    aliveAtAdmit,  \* history: alive tracked workers when admission began
    extWrites,     \* number of writes an external editor made to the file
    extSinceReload,\* history: an external write happened since the last reload
    cleanupRuns,   \* history: how often the body of cleanup was entered
    inExitHook,    \* process.exit was called: the 'exit' listener runs or ran
    sigPending,    \* a SIGINT/SIGTERM was delivered, its handler has not run
    env,           \* what exists at startup: marker, claude, prdFile, promptFile
    runDir,        \* the run directory /tmp/ralph-loop-<pid> exists
    fnIn,          \* arguments of the function a specification applies
    fnOut,         \* << >>, or <<v>> once the function has returned v
    waited,        \* history (Ruby variant): what the last wait on a task's
                   \* worker returned, "none" while it returned nothing
    killer         \* position of a second process run with --kill: "none"
                   \* (not started), "term", "sweep", "done"

vars == <<file, prd, subprocesses, pc, available, queue, tick, shouldExit,
          cleaningUp, maxParallel, checkDelay, exitCode, exitReason, logs,
          pidFile, reported, termSent, killSent, started, aliveAtAdmit,
          extWrites, extSinceReload, cleanupRuns, inExitHook, sigPending,
          env, runDir, fnIn, fnOut, waited, killer>>

\* ---- documents ----

Doc(ts) ==
    [form |-> "doc", tasks |-> ts, completedAt |-> "none", fmt |-> "orig",
     maxParallel |-> -1, checkInterval |-> -1]

EmptyDoc == Doc(<< >>)

\* (mutant of TasksByStatus: the matching tasks come last first)
TasksByStatusReversed(p, statusValue) ==
    LET m == SelectSeq(p.tasks, LAMBDA t : t.status = statusValue)
    IN  [i \in 1..Len(m) |-> m[Len(m) + 1 - i]]

\* tasksByStatus: t.status === statusValue, in document order
TasksByStatus(p, statusValue) ==
    SelectSeq(p.tasks, LAMBDA t : t.status = statusValue)

CountByStatus(p, statusValue) == Len(TasksByStatus(p, statusValue))

Ids(ts) == [i \in DOMAIN ts |-> ts[i].id]

\* this.prd.tasks.find((t) => t.id === taskId): index of the first match, 0 if none
Find(p, taskId) ==
    IF \E i \in DOMAIN p.tasks : p.tasks[i].id = taskId
    THEN CHOOSE i \in DOMAIN p.tasks :
            /\ p.tasks[i].id = taskId
            /\ \A j \in DOMAIN p.tasks : p.tasks[j].id = taskId => i <= j
    ELSE 0

SetStatus(p, i, s) == [p EXCEPT !.tasks[i].status = s]

StatusOf(p, taskId) ==
    IF Find(p, taskId) = 0 THEN "absent" ELSE p.tasks[Find(p, taskId)].status

\* (mutant of ReloadPrd: a failed parse clears the document in memory)
ReloadPrdClears(d, p) ==
    IF d.form = "invalid" THEN [ok |-> FALSE, prd |-> EmptyDoc]
                          ELSE [ok |-> TRUE, prd |-> d]

\* reloadPrd: JSON.parse throws before this.prd is assigned; the catch
\* returns false
ReloadPrd(d, p) ==
    IF d.form = "invalid" THEN [ok |-> FALSE, prd |-> p]
                          ELSE [ok |-> TRUE, prd |-> d]

\* (mutants of SavePrd: only the tasks are written; a running status is
\* written as pending)
SavePrdTasksOnly(p) == [p EXCEPT !.fmt = "pretty", !.completedAt = "none"]

SavePrdNotRunning(p) ==
    [p EXCEPT !.fmt = "pretty", !.tasks =
        [i \in DOMAIN p.tasks |->
            IF p.tasks[i].status = "running"
            THEN [p.tasks[i] EXCEPT !.status = "pending"]
            ELSE p.tasks[i]]]

\* savePrd: the file becomes JSON.stringify(this.prd, null, 2)
SavePrd(p) == [p EXCEPT !.fmt = "pretty"]

\* ---- workers ----

Tracked == {id \in TaskIds : subprocesses[id] # "none"}

ProcessAlive(id) == subprocesses[id] = "alive"

HasExitCode(id) == subprocesses[id] \in {"exit0", "exit1"}

ExitCodeOf(id) == IF subprocesses[id] = "exit0" THEN 0 ELSE 1

ActualRunning == Cardinality({id \in TaskIds : ProcessAlive(id)})

\* ---- the pure steps of the loop ----

\* (mutant of SyncRunningStatus: completed and failed are overwritten too)
SyncOverwritesFinal(p) ==
    [p EXCEPT !.tasks =
        [i \in DOMAIN p.tasks |->
            IF ProcessAlive(p.tasks[i].id)
            THEN [p.tasks[i] EXCEPT !.status = "running"]
            ELSE p.tasks[i]]]

\* syncRunningStatus
SyncRunningStatus(p) ==
    [p EXCEPT !.tasks =
        [i \in DOMAIN p.tasks |->
            IF /\ ProcessAlive(p.tasks[i].id)
               /\ p.tasks[i].status # "completed"
               /\ p.tasks[i].status # "failed"
            THEN [p.tasks[i] EXCEPT !.status = "running"]
            ELSE p.tasks[i]]]

\* (mutants of FinishedStatus: a failed task is put back for a retry; the exit
\* code is ignored)
FinishedStatusRetry(code) == IF code = 0 THEN "completed" ELSE "pending"

FinishedStatusIgnoresCode(code) == "completed"

\* processFinishedTask: the status it assigns
FinishedStatus(code) == IF code = 0 THEN "completed" ELSE "failed"

\* (mutant of Terminal: the running count is not consulted)
TerminalIgnoresRunning(p) ==
    /\ CountByStatus(p, "pending") = 0
    /\ Len(p.tasks) > 0

\* the terminal test of mainLoop
Terminal(p) ==
    /\ CountByStatus(p, "pending") = 0
    /\ CountByStatus(p, "running") = 0
    /\ Len(p.tasks) > 0

\* (mutant of ExitStatus: failed tasks do not count)
ExitStatusZero(p) == 0

\* process.exit(failedCount > 0 ? 1 : 0)
ExitStatus(p) == IF CountByStatus(p, "failed") > 0 THEN 1 ELSE 0

\* (mutants of Available: the alive workers are not subtracted; one slot more)
AvailableIgnoresAlive(mp, actualRunning) == mp

AvailableOneMore(mp, actualRunning) == mp + 1 - actualRunning

\* maxParallel - actualRunning
Available(mp, actualRunning) == mp - actualRunning

\* the admission loop goes on while this holds
MayStart(av, q) == q # << >> /\ av > 0

\* (mutants of ResetRunningTasksToPending: nothing is reset; every task that
\* is not completed is reset)
ResetNothing(d) == d

ResetUnfinished(d) ==
    IF d.form # "doc" THEN d
    ELSE [d EXCEPT !.fmt = "pretty", !.tasks =
            [i \in DOMAIN d.tasks |->
                IF d.tasks[i].status # "completed"
                THEN [d.tasks[i] EXCEPT !.status = "pending"]
                ELSE d.tasks[i]]]

\* resetRunningTasksToPending: the file it leaves.  Nothing is written when
\* the file does not parse, has no tasks array or has no running task
ResetRunningTasksToPending(d) ==
    IF d.form # "doc" \/ \A i \in DOMAIN d.tasks : d.tasks[i].status # "running"
    THEN d
    ELSE [d EXCEPT !.fmt = "pretty", !.tasks =
            [i \in DOMAIN d.tasks |->
                IF d.tasks[i].status = "running"
                THEN [d.tasks[i] EXCEPT !.status = "pending"]
                ELSE d.tasks[i]]]

\* (mutant of CleanupGuard: the flag is not consulted)
CleanupUnguarded(flag) == FALSE

\* cleanup: if (this.cleaningUp) return
CleanupGuard(flag) == flag

AwaitPcs == {"retry_sleep", "spawn_delay", "count_sleep"}

CleanupPcs == {"cl_grace", "cl_sweep", "cl_reset"}

\* ---- initial state: the process has been created, run() not yet called ----

InitLoop ==
    /\ prd = EmptyDoc
    /\ subprocesses = [id \in TaskIds |-> "none"]
    /\ pc = "start"
    /\ available = 0
    /\ queue = << >>
    /\ tick = 0
    /\ shouldExit = FALSE
    /\ cleaningUp = FALSE
    /\ maxParallel \in 1..MaxParallel
    /\ checkDelay \in 0..MaxDelay
    /\ exitCode = -1
    /\ exitReason = "none"
    /\ logs = {}
    /\ pidFile = FALSE
    /\ reported = {}
    /\ termSent = {}
    /\ killSent = {}
    /\ started = 0
    /\ aliveAtAdmit = 0
    /\ extWrites = 0
    /\ extSinceReload = FALSE
    /\ cleanupRuns = 0
    /\ inExitHook = FALSE
    /\ sigPending = FALSE
    /\ runDir = FALSE
    /\ fnIn = << >>
    /\ fnOut = << >>
    /\ waited = [id \in TaskIds |-> "none"]
    /\ killer = "none"

\* a project directory with every prerequisite in place
InitOther ==
    /\ InitLoop
    /\ env = [marker |-> TRUE, claude |-> TRUE, prdFile |-> TRUE,
              promptFile |-> TRUE]

Init ==
    /\ \E n \in 0..MaxTasks : \E st \in [1..n -> Statuses] :
          file = Doc([i \in 1..n |-> [id |-> i, status |-> st[i]]])
    /\ InitOther

\* ---- cleanup ----

\* cleanup(), up to its first sleepSync: the idempotency flag and the SIGTERM loop
CleanupStart ==
    /\ cleaningUp' = TRUE
    /\ IF Tracked # {}
       THEN /\ termSent' = Tracked
            /\ pc' = "cl_grace"
       ELSE /\ termSent' = termSent
            /\ pc' = "cl_sweep"
    /\ cleanupRuns' = cleanupRuns + 1

\* a worker that was sent SIGTERM dies during the grace sleep
WorkerDies(id) ==
    /\ pc = "cl_grace"
    /\ id \in termSent
    /\ subprocesses[id] = "alive"
    /\ subprocesses' = [subprocesses EXCEPT ![id] = "signaled"]
    /\ UNCHANGED <<file, prd, pc, available, queue, tick, shouldExit, cleaningUp,
                   maxParallel, checkDelay, exitCode, exitReason, logs, pidFile,
                   reported, termSent, killSent, started, aliveAtAdmit, extWrites, extSinceReload>>
    /\ UNCHANGED <<cleanupRuns, inExitHook, sigPending>>
    /\ UNCHANGED <<env, runDir, fnIn, fnOut, waited, killer>>

\* cleanup: proc.kill(9) for every tracked worker
CleanupKill ==
    /\ pc = "cl_grace"
    /\ killSent' = Tracked
    /\ subprocesses' = [id \in TaskIds |->
          IF subprocesses[id] = "alive" THEN "signaled" ELSE subprocesses[id]]
    /\ pc' = "cl_sweep"
    /\ UNCHANGED <<file, prd, available, queue, tick, shouldExit, cleaningUp,
                   maxParallel, checkDelay, exitCode, exitReason, logs, pidFile,
                   reported, termSent, started, aliveAtAdmit, extWrites, extSinceReload>>
    /\ UNCHANGED <<cleanupRuns, inExitHook, sigPending>>
    /\ UNCHANGED <<env, runDir, fnIn, fnOut, waited, killer>>

\* cleanup: pkill -TERM / pkill -9 of every "claude --print" process
CleanupSweep ==
    /\ pc = "cl_sweep"
    /\ subprocesses' = [id \in TaskIds |->
          IF subprocesses[id] = "alive" THEN "signaled" ELSE subprocesses[id]]
    /\ pc' = "cl_reset"
    /\ UNCHANGED <<file, prd, available, queue, tick, shouldExit, cleaningUp,
                   maxParallel, checkDelay, exitCode, exitReason, logs, pidFile,
                   reported, termSent, killSent, started, aliveAtAdmit, extWrites, extSinceReload>>
    /\ UNCHANGED <<cleanupRuns, inExitHook, sigPending>>
    /\ UNCHANGED <<env, runDir, fnIn, fnOut, waited, killer>>

\* (mutant of CleanupReset: the reset does not wait for the forced kill)
CleanupResetBeforeKill ==
    /\ pc \in {"cl_grace", "cl_reset"}
    /\ file' = ResetRunningTasksToPending(file)
    /\ pidFile' = FALSE
    /\ inExitHook' = TRUE
    /\ pc' = IF inExitHook THEN "exited" ELSE "exit_hook"
    /\ UNCHANGED <<prd, subprocesses, available, queue, tick, shouldExit,
                   cleaningUp, maxParallel, checkDelay, exitCode, exitReason,
                   logs, reported, termSent, killSent, started, aliveAtAdmit,
                   extWrites, extSinceReload, cleanupRuns, sigPending>>
    /\ UNCHANGED <<env, runDir, fnIn, fnOut, waited, killer>>

\* cleanup: resetRunningTasksToPending, unlink of the PID file.  When cleanup
\* was called by the 'exit' listener the process ends; when it was called by
\* the signal handler, the handler goes on to process.exit(1)
CleanupReset ==
    /\ pc = "cl_reset"
    /\ file' = ResetRunningTasksToPending(file)
    /\ pidFile' = FALSE
    /\ inExitHook' = TRUE
    /\ pc' = IF inExitHook THEN "exited" ELSE "exit_hook"
    /\ UNCHANGED <<cleanupRuns, sigPending>>
    /\ UNCHANGED <<prd, subprocesses, available, queue, tick, shouldExit,
                   cleaningUp, maxParallel, checkDelay, exitCode, exitReason,
                   logs, reported, termSent, killSent, started, aliveAtAdmit, extWrites, extSinceReload>>
    /\ UNCHANGED <<env, runDir, fnIn, fnOut, waited, killer>>

\* process.exit(1) of the signal handler: the 'exit' listener calls cleanup
\* again, and the process ends
ExitHook ==
    /\ pc = "exit_hook"
    /\ IF CleanupGuard(cleaningUp)
       THEN /\ pc' = "exited"
            /\ UNCHANGED <<cleaningUp, termSent, cleanupRuns>>
       ELSE CleanupStart
    /\ UNCHANGED <<file, prd, subprocesses, available, queue, tick, shouldExit,
                   maxParallel, checkDelay, exitCode, exitReason, logs, pidFile,
                   reported, killSent, started, aliveAtAdmit, extWrites,
                   extSinceReload, inExitHook, sigPending>>
    /\ UNCHANGED <<env, runDir, fnIn, fnOut, waited, killer>>

\* ---- run() and mainLoop ----

\* run() when validateEnvironment and loadConfig find what they look for:
\* loadConfig parses the file, the run directory is made, the PID file is
\* written; nothing is reset
\* (mutant of EnvironmentValid: the prompt file is not looked for)
EnvironmentValidNoPrompt(e) == e.marker /\ e.claude /\ e.prdFile

\* the prerequisites parseOptions, validateEnvironment and loadConfig test
\* before anything is created
EnvironmentValid(e) == e.marker /\ e.claude /\ e.prdFile /\ e.promptFile

\* process.exit(1) out of parseOptions, validateEnvironment or loadConfig;
\* the exit hook is registered later, so nothing else runs
StartupFails ==
    /\ pc = "start"
    /\ ~EnvironmentValid(env)
    /\ pc' = "exited"
    /\ exitCode' = 1
    /\ exitReason' = "startup"
    /\ UNCHANGED <<file, prd, subprocesses, available, queue, tick, shouldExit,
                   cleaningUp, maxParallel, checkDelay, logs, pidFile, reported,
                   termSent, killSent, started, aliveAtAdmit, extWrites,
                   extSinceReload, cleanupRuns, inExitHook, sigPending, env,
                   runDir, fnIn, fnOut, waited, killer>>

Run ==
    /\ pc = "start"
    /\ EnvironmentValid(env)
    /\ prd' = file
    /\ pidFile' = TRUE
    /\ pc' = "top"
    /\ UNCHANGED <<file, subprocesses, available, queue, tick, shouldExit,
                   cleaningUp, maxParallel, checkDelay, exitCode, exitReason,
                   logs, reported, termSent, killSent, started, aliveAtAdmit, extWrites, extSinceReload>>
    /\ UNCHANGED <<cleanupRuns, inExitHook, sigPending>>
    /\ runDir' = TRUE
    /\ UNCHANGED <<env, fnIn, fnOut, waited, killer>>

\* reloadPrd and the tasks-array test, on a file that is not the value null
Reload ==
    /\ pc = "top"
    /\ ~shouldExit
    /\ file.form # "null"
    /\ extSinceReload' = FALSE
    /\ prd' = ReloadPrd(file, prd).prd
    /\ IF ReloadPrd(file, prd).ok /\ prd'.form = "doc"
       THEN /\ pc' = "sync"
            /\ reported' = reported
       ELSE /\ pc' = "retry_sleep"
            /\ reported' = reported \cup {"reload_error"}
    /\ UNCHANGED <<file, subprocesses, available, queue, tick, shouldExit,
                   cleaningUp, maxParallel, checkDelay, exitCode, exitReason,
                   logs, pidFile, termSent, killSent, started, aliveAtAdmit, extWrites>>
    /\ UNCHANGED <<cleanupRuns, inExitHook, sigPending>>
    /\ UNCHANGED <<env, runDir, fnIn, fnOut, waited, killer>>

\* reloadPrd on a file that holds the JSON value null: the parse succeeds,
\* this.prd is null and Array.isArray(this.prd.tasks) throws a TypeError; the
\* rejection of run() reaches the entry point's catch, which calls
\* process.exit(1); the exit hook runs cleanup
ReloadNull ==
    /\ pc = "top"
    /\ ~shouldExit
    /\ file.form = "null"
    /\ prd' = ReloadPrd(file, prd).prd
    /\ extSinceReload' = FALSE
    /\ reported' = reported \cup {"type_error"}
    /\ exitCode' = 1
    /\ exitReason' = "crash"
    /\ inExitHook' = TRUE
    /\ CleanupStart
    /\ UNCHANGED <<file, subprocesses, available, queue, tick, shouldExit,
                   maxParallel, checkDelay, logs, pidFile, killSent, started,
                   aliveAtAdmit, extWrites, sigPending>>
    /\ UNCHANGED <<env, runDir, fnIn, fnOut, waited, killer>>

\* await sleep(1000); continue, after a failed reload
RetrySleep ==
    /\ pc = "retry_sleep"
    /\ pc' = "top"
    /\ UNCHANGED <<file, prd, subprocesses, available, queue, tick, shouldExit,
                   cleaningUp, maxParallel, checkDelay, exitCode, exitReason,
                   logs, pidFile, reported, termSent, killSent, started,
                   aliveAtAdmit, extWrites, extSinceReload, cleanupRuns,
                   inExitHook, sigPending>>
    /\ UNCHANGED <<env, runDir, fnIn, fnOut, waited, killer>>

Sync ==
    /\ pc = "sync"
    /\ prd' = SyncRunningStatus(prd)
    /\ pc' = "reap"
    /\ UNCHANGED <<file, subprocesses, available, queue, tick, shouldExit,
                   cleaningUp, maxParallel, checkDelay, exitCode, exitReason,
                   logs, pidFile, reported, termSent, killSent, started,
                   aliveAtAdmit, extWrites, extSinceReload>>
    /\ UNCHANGED <<cleanupRuns, inExitHook, sigPending>>
    /\ UNCHANGED <<env, runDir, fnIn, fnOut, waited, killer>>

\* (mutant of ReapOne: a completed or failed status of the document is kept)
ReapOneKeepsFinal(id) ==
    /\ pc = "reap"
    /\ HasExitCode(id)
    /\ IF Find(prd, id) # 0 /\ StatusOf(prd, id) \notin {"completed", "failed"}
       THEN /\ prd' = SetStatus(prd, Find(prd, id), FinishedStatus(ExitCodeOf(id)))
            /\ file' = SavePrd(prd')
       ELSE UNCHANGED <<prd, file>>
    /\ subprocesses' = [subprocesses EXCEPT ![id] = "none"]
    /\ UNCHANGED <<pc, available, queue, tick, shouldExit, cleaningUp,
                   maxParallel, checkDelay, exitCode, exitReason, logs, pidFile,
                   reported, termSent, killSent, started, aliveAtAdmit, extWrites, extSinceReload>>
    /\ UNCHANGED <<cleanupRuns, inExitHook, sigPending>>
    /\ UNCHANGED <<env, runDir, fnIn, fnOut, waited, killer>>

\* checkRunningTasks: processFinishedTask for one worker whose exitCode is set
ReapOne(id) ==
    /\ pc = "reap"
    /\ HasExitCode(id)
    /\ IF Find(prd, id) # 0
       THEN /\ prd' = SetStatus(prd, Find(prd, id), FinishedStatus(ExitCodeOf(id)))
            /\ file' = SavePrd(prd')
       ELSE UNCHANGED <<prd, file>>
    /\ subprocesses' = [subprocesses EXCEPT ![id] = "none"]
    /\ UNCHANGED <<pc, available, queue, tick, shouldExit, cleaningUp,
                   maxParallel, checkDelay, exitCode, exitReason, logs, pidFile,
                   reported, termSent, killSent, started, aliveAtAdmit, extWrites, extSinceReload>>
    /\ UNCHANGED <<cleanupRuns, inExitHook, sigPending>>
    /\ UNCHANGED <<env, runDir, fnIn, fnOut, waited, killer>>

ReapDone ==
    /\ pc = "reap"
    /\ \A id \in TaskIds : ~HasExitCode(id)
    /\ pc' = "check"
    /\ UNCHANGED <<file, prd, subprocesses, available, queue, tick, shouldExit,
                   cleaningUp, maxParallel, checkDelay, exitCode, exitReason,
                   logs, pidFile, reported, termSent, killSent, started,
                   aliveAtAdmit, extWrites, extSinceReload>>
    /\ UNCHANGED <<cleanupRuns, inExitHook, sigPending>>
    /\ UNCHANGED <<env, runDir, fnIn, fnOut, waited, killer>>

\* the terminal branch: completedAt, savePrd, process.exit, whose exit hook
\* runs cleanup
TerminalExit ==
    /\ pc = "check"
    /\ Terminal(prd)
    /\ prd' = [prd EXCEPT !.completedAt = "new"]
    /\ file' = SavePrd(prd')
    /\ exitCode' = ExitStatus(prd)
    /\ exitReason' = "terminal"
    /\ reported' = reported \cup
          {IF CountByStatus(prd, "failed") = 0 THEN "all_completed" ELSE "finished_failed"}
    /\ CleanupStart
    /\ UNCHANGED <<subprocesses, available, queue, tick, shouldExit, maxParallel,
                   checkDelay, logs, pidFile, killSent, started, aliveAtAdmit, extWrites, extSinceReload>>
    /\ inExitHook' = TRUE
    /\ UNCHANGED sigPending
    /\ UNCHANGED <<env, runDir, fnIn, fnOut, waited, killer>>

\* not terminal: actualRunning, available and the pendingTasks snapshot
BeginAdmission ==
    /\ pc = "check"
    /\ ~Terminal(prd)
    /\ aliveAtAdmit' = ActualRunning
    /\ available' = Available(maxParallel, ActualRunning)
    /\ queue' = IF available' > 0 THEN Ids(TasksByStatus(prd, "pending")) ELSE << >>
    /\ started' = 0
    /\ pc' = "admit"
    /\ UNCHANGED <<file, prd, subprocesses, tick, shouldExit, cleaningUp,
                   maxParallel, checkDelay, exitCode, exitReason, logs, pidFile,
                   reported, termSent, killSent, extWrites, extSinceReload>>
    /\ UNCHANGED <<cleanupRuns, inExitHook, sigPending>>
    /\ UNCHANGED <<env, runDir, fnIn, fnOut, waited, killer>>

\* (mutant of StartTask: the status running is not saved to the file)
StartTaskUnsaved ==
    /\ pc = "admit"
    /\ MayStart(available, queue)
    /\ LET taskId == Head(queue) IN
         IF Find(prd, taskId) # 0
         THEN /\ subprocesses' = [subprocesses EXCEPT ![taskId] = "alive"]
              /\ logs' = logs \cup {taskId}
              /\ prd' = SetStatus(prd, Find(prd, taskId), "running")
              /\ file' = file
              /\ started' = started + 1
         ELSE UNCHANGED <<subprocesses, logs, prd, file, started>>
    /\ available' = available - 1
    /\ queue' = Tail(queue)
    /\ pc' = "spawn_delay"
    /\ UNCHANGED <<tick, shouldExit, cleaningUp, maxParallel, checkDelay,
                   exitCode, exitReason, pidFile, reported, termSent, killSent,
                   aliveAtAdmit, extWrites, extSinceReload>>
    /\ UNCHANGED <<cleanupRuns, inExitHook, sigPending>>
    /\ UNCHANGED <<env, runDir, fnIn, fnOut, waited, killer>>

\* startTask(taskId) returns: the worker is spawned and tracked, the status
\* is set to running and the document is saved
StartTask ==
    /\ pc = "admit"
    /\ MayStart(available, queue)
    /\ LET taskId == Head(queue) IN
         IF Find(prd, taskId) # 0
         THEN /\ subprocesses' = [subprocesses EXCEPT ![taskId] = "alive"]
              /\ logs' = logs \cup {taskId}
              /\ prd' = SetStatus(prd, Find(prd, taskId), "running")
              /\ file' = SavePrd(prd')
              /\ started' = started + 1
         ELSE UNCHANGED <<subprocesses, logs, prd, file, started>>
    /\ available' = available - 1
    /\ queue' = Tail(queue)
    /\ pc' = "spawn_delay"
    /\ UNCHANGED <<tick, shouldExit, cleaningUp, maxParallel, checkDelay,
                   exitCode, exitReason, pidFile, reported, termSent, killSent,
                   aliveAtAdmit, extWrites, extSinceReload>>
    /\ UNCHANGED <<cleanupRuns, inExitHook, sigPending>>
    /\ UNCHANGED <<env, runDir, fnIn, fnOut, waited, killer>>

\* startTask(taskId) throws (the prompt file cannot be read, or Bun.spawn
\* fails): the rejection of run() reaches the entry point's catch, which
\* logs it and calls process.exit(1); the exit hook runs cleanup
SpawnThrows ==
    /\ pc = "admit"
    /\ MayStart(available, queue)
    /\ reported' = reported \cup {"spawn_error"}
    /\ exitCode' = 1
    /\ exitReason' = "crash"
    /\ CleanupStart
    /\ UNCHANGED <<file, prd, subprocesses, available, queue, tick, shouldExit,
                   maxParallel, checkDelay, logs, pidFile, killSent, started,
                   aliveAtAdmit, extWrites, extSinceReload>>
    /\ inExitHook' = TRUE
    /\ UNCHANGED sigPending
    /\ UNCHANGED <<env, runDir, fnIn, fnOut, waited, killer>>

\* await sleep(500) after a start
SpawnDelay ==
    /\ pc = "spawn_delay"
    /\ pc' = "admit"
    /\ UNCHANGED <<file, prd, subprocesses, available, queue, tick, shouldExit,
                   cleaningUp, maxParallel, checkDelay, exitCode, exitReason,
                   logs, pidFile, reported, termSent, killSent, started,
                   aliveAtAdmit, extWrites, extSinceReload>>
    /\ UNCHANGED <<cleanupRuns, inExitHook, sigPending>>
    /\ UNCHANGED <<env, runDir, fnIn, fnOut, waited, killer>>

\* the admission loop ends; the countdown begins
EndAdmission ==
    /\ pc = "admit"
    /\ ~MayStart(available, queue)
    /\ tick' = 0
    /\ pc' = "countdown"
    /\ UNCHANGED <<file, prd, subprocesses, available, queue, shouldExit,
                   cleaningUp, maxParallel, checkDelay, exitCode, exitReason,
                   logs, pidFile, reported, termSent, killSent, started,
                   aliveAtAdmit, extWrites, extSinceReload>>
    /\ UNCHANGED <<cleanupRuns, inExitHook, sigPending>>
    /\ UNCHANGED <<env, runDir, fnIn, fnOut, waited, killer>>

\* head of the countdown loop: i < checkDelay, else back to the top of the loop
Countdown ==
    /\ pc = "countdown"
    /\ pc' = IF tick < checkDelay /\ ~shouldExit THEN "count_sleep" ELSE "top"
    /\ UNCHANGED <<file, prd, subprocesses, available, queue, tick, shouldExit,
                   cleaningUp, maxParallel, checkDelay, exitCode, exitReason,
                   logs, pidFile, reported, termSent, killSent, started,
                   aliveAtAdmit, extWrites, extSinceReload>>
    /\ UNCHANGED <<cleanupRuns, inExitHook, sigPending>>
    /\ UNCHANGED <<env, runDir, fnIn, fnOut, waited, killer>>

\* await sleep(1000) of the countdown
CountSleep ==
    /\ pc = "count_sleep"
    /\ tick' = tick + 1
    /\ pc' = "countdown"
    /\ UNCHANGED <<file, prd, subprocesses, available, queue, shouldExit,
                   cleaningUp, maxParallel, checkDelay, exitCode, exitReason,
                   logs, pidFile, reported, termSent, killSent, started,
                   aliveAtAdmit, extWrites, extSinceReload>>
    /\ UNCHANGED <<cleanupRuns, inExitHook, sigPending>>
    /\ UNCHANGED <<env, runDir, fnIn, fnOut, waited, killer>>

\* ---- environment ----

\* a worker exits with a code; Bun sets proc.exitCode while the loop awaits
WorkerExit(id, code) ==
    /\ pc \in AwaitPcs
    /\ subprocesses[id] = "alive"
    /\ subprocesses' = [subprocesses EXCEPT ![id] =
                            IF code = 0 THEN "exit0" ELSE "exit1"]
    /\ UNCHANGED <<file, prd, pc, available, queue, tick, shouldExit, cleaningUp,
                   maxParallel, checkDelay, exitCode, exitReason, logs, pidFile,
                   reported, termSent, killSent, started, aliveAtAdmit, extWrites, extSinceReload>>
    /\ UNCHANGED <<cleanupRuns, inExitHook, sigPending>>
    /\ UNCHANGED <<env, runDir, fnIn, fnOut, waited, killer>>

\* a worker is killed by a signal from outside: no exit code
WorkerSignaled(id) ==
    /\ pc \in AwaitPcs
    /\ subprocesses[id] = "alive"
    /\ subprocesses' = [subprocesses EXCEPT ![id] = "signaled"]
    /\ UNCHANGED <<file, prd, pc, available, queue, tick, shouldExit, cleaningUp,
                   maxParallel, checkDelay, exitCode, exitReason, logs, pidFile,
                   reported, termSent, killSent, started, aliveAtAdmit, extWrites, extSinceReload>>
    /\ UNCHANGED <<cleanupRuns, inExitHook, sigPending>>
    /\ UNCHANGED <<env, runDir, fnIn, fnOut, waited, killer>>

\* SIGINT or SIGTERM: the handler sets shouldExit, runs cleanup and calls
\* process.exit(1)
Interrupt ==
    /\ pc \in AwaitPcs
    /\ shouldExit' = TRUE
    /\ exitCode' = 1
    /\ exitReason' = "signal"
    /\ CleanupStart
    /\ UNCHANGED <<file, prd, subprocesses, available, queue, tick, maxParallel,
                   checkDelay, logs, pidFile, reported, killSent, started,
                   aliveAtAdmit, extWrites, extSinceReload>>
    /\ sigPending' = FALSE
    /\ UNCHANGED inExitHook
    /\ UNCHANGED <<env, runDir, fnIn, fnOut, waited, killer>>

Loop ==
    \/ Run
    \/ Reload
    \/ Sync
    \/ \E id \in TaskIds : ReapOne(id)
    \/ ReapDone
    \/ TerminalExit
    \/ BeginAdmission
    \/ StartTask
    \/ SpawnThrows
    \/ SpawnDelay
    \/ EndAdmission
    \/ Countdown
    \/ CountSleep

Cleanup ==
    \/ \E id \in TaskIds : WorkerDies(id)
    \/ CleanupKill
    \/ CleanupSweep
    \/ CleanupReset

Environment ==
    \/ \E id \in TaskIds, code \in {0, 1} : WorkerExit(id, code)
    \/ \E id \in TaskIds : WorkerSignaled(id)
    \/ Interrupt

Next == Loop \/ Cleanup \/ ExitHook \/ Environment

\* the orchestrator, its workers and interrupts; nobody else writes the file
Spec == Init /\ [][Next]_vars

\* ---- an external editor of the task file ----

LoopPcs == {"top", "retry_sleep", "sync", "reap", "check", "admit", "spawn_delay",
            "countdown", "count_sleep"}

\* somebody else rewrites the file with the status of one task changed
ExternalWrite(id, s) ==
    /\ pc \in LoopPcs
    /\ extWrites < MaxExtWrites
    /\ file.form = "doc"
    /\ Find(file, id) # 0
    /\ StatusOf(file, id) # s
    /\ file' = [SetStatus(file, Find(file, id), s) EXCEPT !.fmt = "orig"]
    /\ extWrites' = extWrites + 1
    /\ extSinceReload' = TRUE
    /\ UNCHANGED <<prd, subprocesses, pc, available, queue, tick, shouldExit,
                   cleaningUp, maxParallel, checkDelay, exitCode, exitReason,
                   logs, pidFile, reported, termSent, killSent, started,
                   aliveAtAdmit>>
    /\ UNCHANGED <<cleanupRuns, inExitHook, sigPending>>
    /\ UNCHANGED <<env, runDir, fnIn, fnOut, waited, killer>>

External ==
    \E id \in TaskIds, s \in {"pending", "running", "completed", "failed"} :
        ExternalWrite(id, s)

\* a fresh task file: every task is pending
InitFresh ==
    /\ Init
    /\ Len(file.tasks) <= MaxExtTasks
    /\ \A i \in DOMAIN file.tasks : file.tasks[i].status = "pending"

NextExt ==
    \/ Loop
    \/ Cleanup
    \/ \E id \in TaskIds, code \in {0, 1} : WorkerExit(id, code)
    \/ External

\* the orchestrator on a fresh task file, run without interrupts, with an
\* external editor of the file
SpecExt == InitFresh /\ [][NextExt]_vars

\* ---- a task file that is malformed for a while ----

\* somebody else is rewriting the file: what the orchestrator can read is not
\* JSON, has no tasks array, or is the JSON value null (the tasks field of the
\* record keeps what the writer is going to leave when it is done)
Corrupt(form) ==
    /\ pc \in LoopPcs
    /\ extWrites < MaxExtWrites
    /\ file.form = "doc"
    /\ file' = [file EXCEPT !.form = form, !.fmt = "orig"]
    /\ extWrites' = extWrites + 1
    /\ extSinceReload' = TRUE
    /\ UNCHANGED <<prd, subprocesses, pc, available, queue, tick, shouldExit,
                   cleaningUp, maxParallel, checkDelay, exitCode, exitReason,
                   logs, pidFile, reported, termSent, killSent, started,
                   aliveAtAdmit, cleanupRuns, inExitHook, sigPending>>
    /\ UNCHANGED <<env, runDir, fnIn, fnOut, waited, killer>>

\* the writer is done: the file is a document again
Repair ==
    /\ pc \in LoopPcs
    /\ file.form # "doc"
    /\ file' = [file EXCEPT !.form = "doc"]
    /\ extSinceReload' = TRUE
    /\ UNCHANGED <<prd, subprocesses, pc, available, queue, tick, shouldExit,
                   cleaningUp, maxParallel, checkDelay, exitCode, exitReason,
                   logs, pidFile, reported, termSent, killSent, started,
                   aliveAtAdmit, extWrites, cleanupRuns, inExitHook, sigPending>>
    /\ UNCHANGED <<env, runDir, fnIn, fnOut, waited, killer>>

NextBad ==
    \/ Loop
    \/ ReloadNull
    \/ RetrySleep
    \/ Cleanup
    \/ \E id \in TaskIds, code \in {0, 1} : WorkerExit(id, code)
    \/ \E form \in {"invalid", "noTasks", "null"} : Corrupt(form)
    \/ Repair

\* the orchestrator on a fresh task file that somebody else makes unreadable
\* for a while
SpecBad == InitFresh /\ [][NextBad]_vars

\* ---- signals that wait for the event loop; runs that must end ----

\* the operating system delivers SIGINT or SIGTERM to the process; the
\* listener runs when the loop next awaits
SignalArrives ==
    /\ pc \in LoopPcs
    /\ ~sigPending
    /\ sigPending' = TRUE
    /\ UNCHANGED <<file, prd, subprocesses, pc, available, queue, tick,
                   shouldExit, cleaningUp, maxParallel, checkDelay, exitCode,
                   exitReason, logs, pidFile, reported, termSent, killSent,
                   started, aliveAtAdmit, extWrites, extSinceReload,
                   cleanupRuns, inExitHook>>
    /\ UNCHANGED <<env, runDir, fnIn, fnOut, waited, killer>>

\* the listener of a delivered signal runs
HandleSignal == sigPending /\ Interrupt

\* every task of the file is pending
InitPending ==
    /\ Init
    /\ \A i \in DOMAIN file.tasks : file.tasks[i].status = "pending"

\* mainLoop when every read of the prompt file and every spawn succeeds
LoopSpawning ==
    \/ Run
    \/ Reload
    \/ Sync
    \/ \E id \in TaskIds : ReapOne(id)
    \/ ReapDone
    \/ TerminalExit
    \/ BeginAdmission
    \/ StartTask
    \/ SpawnDelay
    \/ EndAdmission
    \/ Countdown
    \/ CountSleep

WorkerExits == \E id \in TaskIds, code \in {0, 1} : WorkerExit(id, code)

NextRun ==
    \/ LoopSpawning
    \/ Cleanup
    \/ ExitHook
    \/ WorkerExits
    \/ SignalArrives
    \/ HandleSignal

\* the orchestrator on a task file whose tasks are all pending; nobody else
\* writes the file and every spawn succeeds
SpecRun == InitPending /\ [][NextRun]_vars

\* the same, when the orchestrator keeps executing, every worker exits (its
\* exit is seen when the loop next awaits) and the listener of a delivered
\* signal runs when the loop next awaits
SpecRunFair ==
    /\ SpecRun
    /\ WF_vars(LoopSpawning \/ Cleanup \/ ExitHook)
    /\ SF_vars(WorkerExits)
    /\ SF_vars(HandleSignal)

\* ---- a run on a file that an earlier run has left ----

\* the file of an earlier run may carry that run's completedAt
InitRerun ==
    /\ \E n \in 0..MaxExtTasks : \E st \in [1..n -> Statuses] :
       \E c \in {"none", "old"} :
          file = [Doc([i \in 1..n |-> [id |-> i, status |-> st[i]]])
                    EXCEPT !.completedAt = c]
    /\ InitOther

SpecRerun == InitRerun /\ [][Next]_vars

\* ---- the configuration in the task file is edited during the run ----

\* between two cycles somebody sets maxParallel and checkInterval in the file
ConfigEdit(mp, cd) ==
    /\ pc \in {"countdown", "count_sleep"}
    /\ extWrites < MaxExtWrites
    /\ file.form = "doc"
    /\ <<mp, cd>> # <<maxParallel, checkDelay>>
    /\ file' = [file EXCEPT !.maxParallel = mp, !.checkInterval = cd,
                            !.fmt = "orig"]
    /\ extWrites' = extWrites + 1
    /\ extSinceReload' = TRUE
    /\ UNCHANGED <<prd, subprocesses, pc, available, queue, tick, shouldExit,
                   cleaningUp, maxParallel, checkDelay, exitCode, exitReason,
                   logs, pidFile, reported, termSent, killSent, started,
                   aliveAtAdmit, cleanupRuns, inExitHook, sigPending,
                   env, runDir, fnIn, fnOut, waited, killer>>

NextCfg ==
    \/ LoopSpawning
    \/ CleanupSweep
    \/ CleanupReset
    \/ WorkerExits
    \/ \E mp \in 1..MaxParallel, cd \in 0..MaxDelay : ConfigEdit(mp, cd)

\* the orchestrator on a fresh task file whose configuration is edited once
SpecCfg == InitFresh /\ [][NextCfg]_vars

\* ---- startTask: the input it composes for the worker ----
\*
\* Text is a sequence of characters.  "xFF" stands for a byte of the prompt
\* file that is not valid UTF-8, "uFFFD" for the replacement character that
\* decoding puts in its place, "bq" for the backquote character.

IdChars == {"a", "\"", "\\"}

PromptBytes == {"p", "\n", "xFF"}

SeqsUpTo(S, n) == UNION {[1..k -> S] : k \in 0..n}

\* readFileSync(this.promptFile, "utf-8")
Utf8Decode(bytes) ==
    [i \in DOMAIN bytes |-> IF bytes[i] = "xFF" THEN "uFFFD" ELSE bytes[i]]

RECURSIVE JsonEscape(_)
\* the characters of a string as JSON.stringify writes them between quotes
JsonEscape(str) ==
    IF str = << >> THEN << >>
    ELSE (IF Head(str) \in {"\"", "\\"} THEN <<"\\", Head(str)>>
          ELSE IF Head(str) = "\n" THEN <<"\\", "n">>
          ELSE <<Head(str)>>) \o JsonEscape(Tail(str))

\* JSON.stringify of a string
JsonQuote(str) == <<"\"">> \o JsonEscape(str) \o <<"\"">>

StatusText ==
    <<"p", "e", "n", "d", "i", "n", "g">>

IdKey ==
    <<"\"", "i", "d", "\"">>

StatusKey ==
    <<"\"", "s", "t", "a", "t", "u", "s", "\"">>

\* JSON.stringify(task, null, 2) of a task with an id and a status
TaskJson(task) ==
    <<"{", "\n", " ", " ">> \o IdKey \o <<":", " ">> \o JsonQuote(task.id)
    \o <<",", "\n", " ", " ">> \o StatusKey \o <<":", " ">>
    \o JsonQuote(StatusText) \o <<"\n", "}">>

HeaderOpen ==
    <<"#", " ", "Y", "O", "U", "R", " ", "A", "S", "S", "I", "G", "N", "E",
      "D", " ", "T", "A", "S", "K", "\n", "\n", "bq", "bq", "bq", "j", "s",
      "o", "n", "\n">>

HeaderClose ==
    <<"\n", "bq", "bq", "bq", "\n", "\n">>

\* (mutant of TaskPrompt: the prompt loses its last character)
TaskPromptCut(task, promptContent) ==
    HeaderOpen \o TaskJson(task) \o HeaderClose
    \o (IF promptContent = << >> THEN << >>
        ELSE SubSeq(promptContent, 1, Len(promptContent) - 1))

\* the template literal of startTask
TaskPrompt(task, promptContent) ==
    HeaderOpen \o TaskJson(task) \o HeaderClose \o promptContent

\* the orchestrator's own variables while a specification applies one function
loopVars ==
    <<file, prd, subprocesses, pc, available, queue, tick, shouldExit,
      cleaningUp, maxParallel, checkDelay, exitCode, exitReason, logs, pidFile,
      reported, termSent, killSent, started, aliveAtAdmit, extWrites,
      extSinceReload, cleanupRuns, inExitHook, sigPending, env, runDir,
      waited, killer>>

InitIdle ==
    /\ file = EmptyDoc
    /\ prd = EmptyDoc
    /\ subprocesses = [id \in TaskIds |-> "none"]
    /\ pc = "fn"
    /\ available = 0
    /\ queue = << >>
    /\ tick = 0
    /\ shouldExit = FALSE
    /\ cleaningUp = FALSE
    /\ maxParallel = 1
    /\ checkDelay = 0
    /\ exitCode = -1
    /\ exitReason = "none"
    /\ logs = {}
    /\ pidFile = FALSE
    /\ reported = {}
    /\ termSent = {}
    /\ killSent = {}
    /\ started = 0
    /\ aliveAtAdmit = 0
    /\ extWrites = 0
    /\ extSinceReload = FALSE
    /\ cleanupRuns = 0
    /\ inExitHook = FALSE
    /\ sigPending = FALSE
    /\ env = [marker |-> TRUE, claude |-> TRUE, prdFile |-> TRUE,
              promptFile |-> TRUE]
    /\ runDir = FALSE
    /\ waited = [id \in TaskIds |-> "none"]
    /\ killer = "none"

InitPrompt ==
    /\ \E id \in SeqsUpTo(IdChars, MaxIdLen) \ {<< >>} :
       \E bytes \in SeqsUpTo(PromptBytes, MaxPromptLen) :
          fnIn = [task |-> [id |-> id, status |-> "pending"], prompt |-> bytes]
    /\ fnOut = << >>
    /\ InitIdle

\* startTask reads the prompt file and composes the worker's input
ComposePrompt ==
    /\ pc = "fn"
    /\ fnOut = << >>
    /\ fnOut' = <<TaskPrompt(fnIn.task, Utf8Decode(fnIn.prompt))>>
    /\ UNCHANGED <<loopVars, fnIn>>

SpecPrompt == InitPrompt /\ [][ComposePrompt]_vars

\* ---- startup in a directory that may lack a prerequisite ----

\* env says which of CLAUDE.md, the claude executable, the task file and the
\* prompt file exist; file is what the task file's path holds
InitStartup ==
    /\ \E n \in 0..MaxExtTasks : \E st \in [1..n -> Statuses] :
          file = Doc([i \in 1..n |-> [id |-> i, status |-> st[i]]])
    /\ InitLoop
    /\ env \in [marker : BOOLEAN, claude : BOOLEAN, prdFile : BOOLEAN,
                promptFile : BOOLEAN]

NextStartup == Next \/ StartupFails

SpecStartup == InitStartup /\ [][NextStartup]_vars

\* ---- loadConfig: flags, task-file values, defaults ----
\*
\* A setting that may be missing is << >> (null or undefined) or <<v>>.

DefaultMaxParallel == 1

DefaultCheckInterval == 15

DefaultPromptFile == "ralph-prompt.md"

\* a ?? b
Nullish(a, b) == IF a = << >> THEN b ELSE a

Maybe(S) == {<< >>} \cup {<<v>> : v \in S}

\* (mutant of LoadConfig: a value of the task file replaces the flag's)
LoadConfigFileFirst(flags, doc) ==
    [maxParallel |->
        Nullish(doc.maxParallel, Nullish(flags.jobs, <<DefaultMaxParallel>>))[1],
     checkDelay |->
        Nullish(doc.checkInterval, Nullish(flags.delay, <<DefaultCheckInterval>>))[1],
     promptFile |->
        Nullish(doc.promptFile, Nullish(flags.prompt, <<DefaultPromptFile>>))[1]]

\* loadConfig: this.maxParallel ??= ..., this.checkDelay ??= ..., and the
\* prompt file; flags holds what parseOptions has set
LoadConfig(flags, doc) ==
    [maxParallel |->
        Nullish(flags.jobs, Nullish(doc.maxParallel, <<DefaultMaxParallel>>))[1],
     checkDelay |->
        Nullish(flags.delay, Nullish(doc.checkInterval, <<DefaultCheckInterval>>))[1],
     promptFile |->
        Nullish(flags.prompt, Nullish(doc.promptFile, <<DefaultPromptFile>>))[1]]

PromptPaths == {"custom.md", "other.md"}

InitConfig ==
    /\ \E j, mp \in Maybe(0..MaxParallel), d, ci \in Maybe(0..MaxDelay),
          o, pf \in Maybe(PromptPaths) :
          fnIn = [flags |-> [jobs |-> j, delay |-> d, prompt |-> o],
                  doc |-> [maxParallel |-> mp, checkInterval |-> ci,
                           promptFile |-> pf]]
    /\ fnOut = << >>
    /\ InitIdle

ApplyLoadConfig ==
    /\ pc = "fn"
    /\ fnOut = << >>
    /\ fnOut' = <<LoadConfig(fnIn.flags, fnIn.doc)>>
    /\ UNCHANGED <<loopVars, fnIn>>

SpecConfig == InitConfig /\ [][ApplyLoadConfig]_vars

\* ---- renderStatusLine ----
\*
\* A string is the sequence of the pieces it is concatenated from; the
\* colour escapes are the pieces "cyan", "red", "gray" and "reset".

MaxCount == 3

\* colorize(color, text)
Colorize(color, text) == <<color>> \o text \o <<"reset">>

RECURSIVE Join(_, _)
\* parts.join(sep)
Join(parts, sep) ==
    IF parts = << >> THEN << >>
    ELSE IF Len(parts) = 1 THEN parts[1]
    ELSE parts[1] \o <<sep>> \o Join(Tail(parts), sep)

\* (mutant of RenderStatusLine: a category with count 0 is shown as well)
RenderStatusLineShowsZero(running, failed, pending) ==
    Join(<<Colorize("cyan", <<ToString(running), " running">>),
           Colorize("red", <<ToString(failed), " failed">>),
           Colorize("gray", <<ToString(pending), " pending">>)>>, " | ")

RenderStatusLine(running, failed, pending) ==
    LET p0 == << >>
        p1 == IF running > 0
              THEN Append(p0, Colorize("cyan", <<ToString(running), " running">>))
              ELSE p0
        p2 == IF failed > 0
              THEN Append(p1, Colorize("red", <<ToString(failed), " failed">>))
              ELSE p1
        p3 == IF pending > 0
              THEN Append(p2, Colorize("gray", <<ToString(pending), " pending">>))
              ELSE p2
    IN  Join(p3, " | ")

InitStatusLine ==
    /\ \E r, f, p \in 0..MaxCount :
          fnIn = [running |-> r, failed |-> f, pending |-> p]
    /\ fnOut = << >>
    /\ InitIdle

ApplyRenderStatusLine ==
    /\ pc = "fn"
    /\ fnOut = << >>
    /\ fnOut' = <<RenderStatusLine(fnIn.running, fnIn.failed, fnIn.pending)>>
    /\ UNCHANGED <<loopVars, fnIn>>

SpecStatusLine == InitStatusLine /\ [][ApplyRenderStatusLine]_vars

\* ---- renderTaskList ----
\*
\* A title is the sequence of its characters; the i-th character of a test
\* title is the numeral of i, so that a cut shows where it was made.  A task
\* without a title has title << >> wrapped as a missing value.  A printed
\* row is a record of the pieces of the line.

MaxListTasks == 3

MaxDisplay == 3

MaxTitle == 40

TitleOfLen(n) == [i \in 1..n |-> ToString(i)]

TitleLens == {MaxTitle, MaxTitle + 1}

Untitled == <<"U", "n", "t", "i", "t", "l", "e", "d">>

Ellipsis == <<".", ".", ".">>

\* (mutant of TruncateTitle: the cut keeps maxTitle characters)
TruncateTitleLong(title) ==
    IF Len(title) > MaxTitle
    THEN SubSeq(title, 1, MaxTitle) \o Ellipsis
    ELSE title

\* title.length > maxTitle: title.slice(0, maxTitle - 3) + "..."
TruncateTitle(title) ==
    IF Len(title) > MaxTitle
    THEN SubSeq(title, 1, MaxTitle - 3) \o Ellipsis
    ELSE title

\* the switch on the status of a displayed task
StatusStr(status) ==
    CASE status = "completed" -> Colorize("green", <<"completed">>)
      [] status = "running" -> Colorize("cyan", <<"running">>)
      [] status = "failed" -> Colorize("red", <<"failed ">>)
      [] OTHER -> Colorize("gray", <<"pending">>)

\* the line printed for one task; pid says whether a "(PID n)" suffix is
\* printed
TaskRow(task, tracked) ==
    [id |-> task.id,
     status |-> StatusStr(task.status),
     title |-> TruncateTitle(Nullish(task.title, <<Untitled>>)[1]),
     pid |-> task.status = "running" /\ task.id \in tracked]

\* array.slice(0, n) for n >= 0
Slice0(arr, n) == SubSeq(arr, 1, IF n < Len(arr) THEN n ELSE Len(arr))

RenderTaskList(p, tracked, maxDisplay) ==
    LET running == TasksByStatus(p, "running")
        failed == TasksByStatus(p, "failed")
        pending == TasksByStatus(p, "pending")
        displayTasks == Slice0(running \o failed \o pending, maxDisplay)
    IN  [i \in DOMAIN displayTasks |-> TaskRow(displayTasks[i], tracked)]

InitTaskList ==
    /\ \E n \in 0..MaxListTasks :
       \E st \in [1..n -> Statuses] :
       \E ti \in [1..n -> Maybe({TitleOfLen(l) : l \in TitleLens})] :
       \E tr \in {{}, 1..n} :
       \E md \in 0..MaxDisplay :
          fnIn = [prd |-> [tasks |-> [i \in 1..n |->
                              [id |-> i, status |-> st[i], title |-> ti[i]]]],
                  tracked |-> tr,
                  maxDisplay |-> md]
    /\ fnOut = << >>
    /\ InitIdle

ApplyRenderTaskList ==
    /\ pc = "fn"
    /\ fnOut = << >>
    /\ fnOut' = <<RenderTaskList(fnIn.prd, fnIn.tracked, fnIn.maxDisplay)>>
    /\ UNCHANGED <<loopVars, fnIn>>

SpecTaskList == InitTaskList /\ [][ApplyRenderTaskList]_vars

\* ---- renderProgressBar ----
\*
\* completed / total, the product with 100 or width, and Math.round are
\* operations on numbers, which are IEEE 754 binary64 values.  A positive
\* value is [m, e]: m its 53 significand bits, first bit 1 first, and e the
\* exponent of the last bit, so that the value is m * 2^e; zero has m = << >>.
\* Every operation is rounded to nearest, ties to even.

MaxTotal == 40

MaxWidth == 11

SignificandBits == 53

Zero == [m |-> << >>, e |-> 0]

RECURSIVE LeadShift(_, _, _)
\* the least k with c * 2^k >= t, for 0 < c <= t
LeadShift(c, t, k) == IF c >= t THEN k ELSE LeadShift(2 * c, t, k + 1)

RECURSIVE Pow2(_)
Pow2(k) == IF k = 0 THEN 1 ELSE 2 * Pow2(k - 1)

RECURSIVE QuotientBits(_, _, _, _)
\* bits followed by the next n bits of r / t, for r < 2t, and what is left
\* over
QuotientBits(r, t, n, bits) ==
    IF n = 0 THEN [bits |-> bits, rem |-> r]
    ELSE IF r >= t
         THEN QuotientBits(2 * (r - t), t, n - 1, Append(bits, 1))
         ELSE QuotientBits(2 * r, t, n - 1, Append(bits, 0))

RECURSIVE Increment(_)
\* bits + 1; one bit longer when every bit was 1
Increment(bits) ==
    IF bits = << >> THEN <<1>>
    ELSE IF bits[Len(bits)] = 0
         THEN SubSeq(bits, 1, Len(bits) - 1) \o <<1>>
         ELSE Increment(SubSeq(bits, 1, Len(bits) - 1)) \o <<0>>

\* a significand, rounded up when up holds, as a value with last-bit
\* exponent e
Rounded(bits, up, e) ==
    LET r == IF up THEN Increment(bits) ELSE bits
    IN  IF Len(r) > SignificandBits
        THEN [m |-> SubSeq(r, 1, SignificandBits), e |-> e + 1]
        ELSE [m |-> r, e |-> e]

\* c / t for integers 0 <= c <= t, 0 < t
Divide(c, t) ==
    IF c = 0 THEN Zero
    ELSE LET k == LeadShift(c, t, 0)
             q == QuotientBits(c * Pow2(k), t, SignificandBits, << >>)
             up == \/ q.rem > t
                   \/ q.rem = t /\ q.bits[SignificandBits] = 1
         IN  Rounded(q.bits, up, 1 - k - SignificandBits)

RECURSIVE BitsRev(_)
\* the bits of n, last bit first
BitsRev(n) == IF n = 0 THEN << >> ELSE <<n % 2>> \o BitsRev(n \div 2)

RECURSIVE TimesRev(_, _, _)
\* rev * n + carry on bits given last bit first
TimesRev(rev, n, carry) ==
    IF rev = << >> THEN BitsRev(carry)
    ELSE <<(Head(rev) * n + carry) % 2>>
            \o TimesRev(Tail(rev), n, (Head(rev) * n + carry) \div 2)

Reverse(sq) == [i \in 1..Len(sq) |-> sq[Len(sq) + 1 - i]]

\* x * n for an integer n >= 0
Times(x, n) ==
    IF x.m = << >> \/ n = 0 THEN Zero
    ELSE LET p == Reverse(TimesRev(Reverse(x.m), n, 0))
             drop == Len(p) - SignificandBits
             keep == SubSeq(p, 1, SignificandBits)
             rest == SubSeq(p, SignificandBits + 1, Len(p))
             up == /\ drop > 0
                   /\ rest[1] = 1
                   /\ \/ \E i \in 2..drop : rest[i] = 1
                      \/ keep[SignificandBits] = 1
         IN  Rounded(keep, up, x.e + drop)

RECURSIVE BitsValue(_)
BitsValue(bits) ==
    IF bits = << >> THEN 0
    ELSE 2 * BitsValue(SubSeq(bits, 1, Len(bits) - 1)) + bits[Len(bits)]

\* Math.round(x) for 0 <= x < 2^31: the integer part, one more when the
\* fraction is a half or above
MathRound(x) ==
    IF x.m = << >> THEN 0
    ELSE LET ib == SignificandBits + x.e
         IN  IF ib < 0 THEN 0
             ELSE IF ib >= SignificandBits THEN BitsValue(x.m) * Pow2(x.e)
             ELSE BitsValue(SubSeq(x.m, 1, ib)) + x.m[ib + 1]

\* s.repeat(n)
Repeat(ch, n) == [i \in 1..n |-> ch]

\* the bar is the sequence of its blocks, "#" for a filled one and "-" for
\* an empty one
RenderProgressBar(completed, total, width) ==
    IF total = 0
    THEN [bar |-> Repeat("-", width), percent |-> 0,
          completed |-> 0, total |-> 0]
    ELSE LET percent == MathRound(Times(Divide(completed, total), 100))
             filled == MathRound(Times(Divide(completed, total), width))
             empty == width - filled
         IN  [bar |-> Repeat("#", filled) \o Repeat("-", empty),
              percent |-> percent, completed |-> completed, total |-> total]

InitProgressBar ==
    /\ \E t \in 0..MaxTotal : \E c \in 0..t : \E w \in 0..MaxWidth :
          fnIn = [completed |-> c, total |-> t, width |-> w]
    /\ fnOut = << >>
    /\ InitIdle

ApplyRenderProgressBar ==
    /\ pc = "fn"
    /\ fnOut = << >>
    /\ fnOut' = <<RenderProgressBar(fnIn.completed, fnIn.total, fnIn.width)>>
    /\ UNCHANGED <<loopVars, fnIn>>

SpecProgressBar == InitProgressBar /\ [][ApplyRenderProgressBar]_vars

\* ---- the Ruby variant (src/claude/scripts/ralph-loop.rb, status model) ----
\*
\* The successful status is "passed".  An entry of @running_pids is a child
\* process: "alive"; "exit0", "exit1" or "signaled" once it has terminated
\* and waits to be reaped (kill(0) still succeeds on it); "nochild" when
\* the kernel no longer has it as a child of the orchestrator (it was
\* reaped elsewhere), so that kill(0) raises ESRCH and waitpid2 raises
\* ECHILD.  Ruby runs the loop without yielding, but workers and signals
\* are processes of their own: their steps are enabled at every position.

RbStatuses == {"pending", "running", "passed", "failed"}

RbLoopPcs == {"rb_top", "rb_sync", "rb_reap", "rb_check", "rb_admit",
              "rb_spawn_delay", "rb_countdown", "rb_count_sleep"}

\* the variables the Ruby variant has no use for
rbIdle == <<cleaningUp, reported, started, aliveAtAdmit, extWrites,
            extSinceReload, cleanupRuns, inExitHook, sigPending, env, fnIn,
            fnOut, killer>>

\* process_alive?(pid): Process.kill(0, pid) does not raise
RbProcessAlive(id) ==
    subprocesses[id] \in {"alive", "exit0", "exit1", "signaled"}

\* (mutant of RbFinished: ECHILD is not rescued as a finished worker)
RbFinishedNoEchild(id) == subprocesses[id] \in {"exit0", "exit1", "signaled"}

\* check_running_tasks: waitpid2(pid, WNOHANG) returns a status, or raises
\* ECHILD
RbFinished(id) ==
    subprocesses[id] \in {"exit0", "exit1", "signaled", "nochild"}

\* exit_code = status&.exitstatus || 0, and 0 in the ECHILD rescue
RbExitCode(id) == IF subprocesses[id] = "exit1" THEN 1 ELSE 0

\* process_finished_task: the status written for an exit code
RbFinishedStatus(code) == IF code = 0 THEN "passed" ELSE "failed"

\* sync_running_status
RbSyncRunningStatus(p) ==
    [p EXCEPT !.tasks =
        [i \in DOMAIN p.tasks |->
            IF /\ p.tasks[i].id \in Tracked
               /\ RbProcessAlive(p.tasks[i].id)
               /\ p.tasks[i].status \notin {"passed", "failed"}
            THEN [p.tasks[i] EXCEPT !.status = "running"]
            ELSE p.tasks[i]]]

\* the document after process_finished_task has run for every worker in
\* finished
RbProcessFinished(p, finished) ==
    [p EXCEPT !.tasks =
        [i \in DOMAIN p.tasks |->
            IF p.tasks[i].id \in finished /\ Find(p, p.tasks[i].id) = i
            THEN [p.tasks[i] EXCEPT
                    !.status = RbFinishedStatus(RbExitCode(p.tasks[i].id))]
            ELSE p.tasks[i]]]

\* save_prd: the file becomes JSON.pretty_generate(@prd)
RbSavePrd(p) == [p EXCEPT !.fmt = "pretty"]

RbTerminal(p) ==
    /\ CountByStatus(p, "pending") = 0
    /\ CountByStatus(p, "running") = 0
    /\ Len(p.tasks) > 0

\* run up to main_loop
RbRun ==
    /\ pc = "start"
    /\ EnvironmentValid(env)
    /\ prd' = file
    /\ runDir' = TRUE
    /\ pidFile' = TRUE
    /\ pc' = "rb_top"
    /\ UNCHANGED <<file, subprocesses, available, queue, tick, shouldExit,
                   maxParallel, checkDelay, exitCode, exitReason, logs,
                   termSent, killSent, waited>>
    /\ UNCHANGED rbIdle

\* until @should_exit fails: main_loop and run return, the interpreter exits
\* with status 0 and runs the at_exit block
RbLoopExit ==
    /\ pc = "rb_top"
    /\ shouldExit
    /\ exitCode' = 0
    /\ exitReason' = "signal"
    /\ pc' = "rb_cleanup"
    /\ UNCHANGED <<file, prd, subprocesses, available, queue, tick, shouldExit,
                   maxParallel, checkDelay, logs, pidFile, termSent, killSent,
                   runDir, waited>>
    /\ UNCHANGED rbIdle

\* reload_prd and the tasks-array test; a failure sleeps a second and starts
\* the loop body again; on the JSON value null @prd is nil and @prd["tasks"]
\* raises NoMethodError
RbReload ==
    /\ pc = "rb_top"
    /\ ~shouldExit
    /\ prd' = IF file.form = "invalid" THEN prd ELSE file
    /\ pc' = CASE file.form = "doc" -> "rb_sync"
              [] file.form = "null" -> "rb_cleanup"
              [] OTHER -> "rb_top"
    /\ exitCode' = IF file.form = "null" THEN 1 ELSE exitCode
    /\ exitReason' = IF file.form = "null" THEN "crash" ELSE exitReason
    /\ UNCHANGED <<file, subprocesses, available, queue, tick, shouldExit,
                   maxParallel, checkDelay, logs, pidFile, termSent, killSent,
                   runDir, waited>>
    /\ UNCHANGED rbIdle

RbSync ==
    /\ pc = "rb_sync"
    /\ prd' = RbSyncRunningStatus(prd)
    /\ pc' = "rb_reap"
    /\ UNCHANGED <<file, subprocesses, available, queue, tick, shouldExit,
                   maxParallel, checkDelay, exitCode, exitReason, logs, pidFile,
                   termSent, killSent, runDir, waited>>
    /\ UNCHANGED rbIdle

\* check_running_tasks: every tracked worker is waited for once, then
\* process_finished_task runs for each one that has finished
RbCheckRunningTasks ==
    /\ pc = "rb_reap"
    /\ LET finished == {id \in Tracked : RbFinished(id)}
           found == {id \in finished : Find(prd, id) # 0}
       IN  /\ prd' = RbProcessFinished(prd, finished)
           /\ file' = IF found = {} THEN file ELSE RbSavePrd(prd')
           /\ waited' = [id \in TaskIds |->
                            IF id \in finished THEN subprocesses[id]
                            ELSE waited[id]]
           /\ subprocesses' = [id \in TaskIds |->
                                  IF id \in finished THEN "none"
                                  ELSE subprocesses[id]]
           /\ logs' = logs \ finished
    /\ pc' = "rb_check"
    /\ UNCHANGED <<available, queue, tick, shouldExit, maxParallel, checkDelay,
                   exitCode, exitReason, pidFile, termSent, killSent, runDir>>
    /\ UNCHANGED rbIdle

\* the all-done branch: completedAt, save_prd, exit
RbTerminalExit ==
    /\ pc = "rb_check"
    /\ RbTerminal(prd)
    /\ prd' = [prd EXCEPT !.completedAt = "new"]
    /\ file' = RbSavePrd(prd')
    /\ exitCode' = IF CountByStatus(prd, "failed") > 0 THEN 1 ELSE 0
    /\ exitReason' = "terminal"
    /\ pc' = "rb_cleanup"
    /\ UNCHANGED <<subprocesses, available, queue, tick, shouldExit,
                   maxParallel, checkDelay, logs, pidFile, termSent, killSent,
                   runDir, waited>>
    /\ UNCHANGED rbIdle

RbBeginAdmission ==
    /\ pc = "rb_check"
    /\ ~RbTerminal(prd)
    /\ available' = maxParallel
                       - Cardinality({id \in Tracked : RbProcessAlive(id)})
    /\ queue' = IF available' > 0 THEN Ids(TasksByStatus(prd, "pending"))
                ELSE << >>
    /\ pc' = "rb_admit"
    /\ UNCHANGED <<file, prd, subprocesses, tick, shouldExit, maxParallel,
                   checkDelay, exitCode, exitReason, logs, pidFile, termSent,
                   killSent, runDir, waited>>
    /\ UNCHANGED rbIdle

\* start_task(task["id"]); available -= 1
RbStartTask ==
    /\ pc = "rb_admit"
    /\ queue # << >>
    /\ available > 0
    /\ LET taskId == Head(queue) IN
         /\ subprocesses' = [subprocesses EXCEPT ![taskId] = "alive"]
         /\ waited' = [waited EXCEPT ![taskId] = "none"]
         /\ logs' = logs \cup {taskId}
         /\ IF Find(prd, taskId) # 0
            THEN /\ prd' = SetStatus(prd, Find(prd, taskId), "running")
                 /\ file' = RbSavePrd(prd')
            ELSE UNCHANGED <<prd, file>>
    /\ available' = available - 1
    /\ queue' = Tail(queue)
    /\ pc' = "rb_spawn_delay"
    /\ UNCHANGED <<tick, shouldExit, maxParallel, checkDelay, exitCode,
                   exitReason, pidFile, termSent, killSent, runDir>>
    /\ UNCHANGED rbIdle

\* sleep 0.5
RbSpawnDelay ==
    /\ pc = "rb_spawn_delay"
    /\ pc' = "rb_admit"
    /\ UNCHANGED <<file, prd, subprocesses, available, queue, tick, shouldExit,
                   maxParallel, checkDelay, exitCode, exitReason, logs, pidFile,
                   termSent, killSent, runDir, waited>>
    /\ UNCHANGED rbIdle

RbEndAdmission ==
    /\ pc = "rb_admit"
    /\ queue = << >> \/ available <= 0
    /\ tick' = 0
    /\ pc' = "rb_countdown"
    /\ UNCHANGED <<file, prd, subprocesses, available, queue, shouldExit,
                   maxParallel, checkDelay, exitCode, exitReason, logs, pidFile,
                   termSent, killSent, runDir, waited>>
    /\ UNCHANGED rbIdle

\* @check_delay.times: break if @should_exit
RbCountdown ==
    /\ pc = "rb_countdown"
    /\ pc' = IF tick < checkDelay /\ ~shouldExit THEN "rb_count_sleep"
             ELSE "rb_top"
    /\ UNCHANGED <<file, prd, subprocesses, available, queue, tick, shouldExit,
                   maxParallel, checkDelay, exitCode, exitReason, logs, pidFile,
                   termSent, killSent, runDir, waited>>
    /\ UNCHANGED rbIdle

\* sleep 1
RbCountSleep ==
    /\ pc = "rb_count_sleep"
    /\ tick' = tick + 1
    /\ pc' = "rb_countdown"
    /\ UNCHANGED <<file, prd, subprocesses, available, queue, shouldExit,
                   maxParallel, checkDelay, exitCode, exitReason, logs, pidFile,
                   termSent, killSent, runDir, waited>>
    /\ UNCHANGED rbIdle

\* cleanup (at_exit): TERM to the process group of every tracked worker
\* that is alive, then sleep 1; without such a worker only the run
\* directory is removed
RbCleanupStart ==
    /\ pc = "rb_cleanup"
    /\ LET running == {id \in Tracked : RbProcessAlive(id)} IN
         IF running # {}
         THEN /\ termSent' = running
              /\ pc' = "rb_grace"
              /\ UNCHANGED <<runDir, logs>>
         ELSE /\ runDir' = FALSE
              /\ logs' = {}
              /\ pc' = "exited"
              /\ UNCHANGED termSent
    /\ UNCHANGED <<file, prd, subprocesses, available, queue, tick, shouldExit,
                   maxParallel, checkDelay, exitCode, exitReason, pidFile,
                   killSent, waited>>
    /\ UNCHANGED rbIdle

\* a worker dies of the TERM signal during the second of grace
RbWorkerDies(id) ==
    /\ pc = "rb_grace"
    /\ id \in termSent
    /\ subprocesses[id] = "alive"
    /\ subprocesses' = [subprocesses EXCEPT ![id] = "signaled"]
    /\ UNCHANGED <<file, prd, pc, available, queue, tick, shouldExit,
                   maxParallel, checkDelay, exitCode, exitReason, logs, pidFile,
                   termSent, killSent, runDir, waited>>
    /\ UNCHANGED rbIdle

\* cleanup after the sleep: KILL to every group still alive, rm_rf of the
\* run directory
RbCleanupKill ==
    /\ pc = "rb_grace"
    /\ killSent' = {id \in termSent : RbProcessAlive(id)}
    /\ subprocesses' = [id \in TaskIds |->
                           IF id \in termSent /\ subprocesses[id] = "alive"
                           THEN "signaled" ELSE subprocesses[id]]
    /\ runDir' = FALSE
    /\ logs' = {}
    /\ pc' = "exited"
    /\ UNCHANGED <<file, prd, available, queue, tick, shouldExit, maxParallel,
                   checkDelay, exitCode, exitReason, pidFile, termSent, waited>>
    /\ UNCHANGED rbIdle

\* a worker ends on its own: exit with a code, death by a signal, or an end
\* after which the orchestrator no longer has the child
RbWorkerEnds(id, how) ==
    /\ pc \in RbLoopPcs
    /\ subprocesses[id] = "alive"
    /\ subprocesses' = [subprocesses EXCEPT ![id] = how]
    /\ UNCHANGED <<file, prd, pc, available, queue, tick, shouldExit,
                   maxParallel, checkDelay, exitCode, exitReason, logs, pidFile,
                   termSent, killSent, runDir, waited>>
    /\ UNCHANGED rbIdle

\* Signal.trap("INT" / "TERM"): the block only sets @should_exit
RbInterrupt ==
    /\ pc \in RbLoopPcs
    /\ ~shouldExit
    /\ shouldExit' = TRUE
    /\ UNCHANGED <<file, prd, subprocesses, pc, available, queue, tick,
                   maxParallel, checkDelay, exitCode, exitReason, logs, pidFile,
                   termSent, killSent, runDir, waited>>
    /\ UNCHANGED rbIdle

RbLoop ==
    \/ RbRun
    \/ RbReload
    \/ RbLoopExit
    \/ RbSync
    \/ RbCheckRunningTasks
    \/ RbTerminalExit
    \/ RbBeginAdmission
    \/ RbStartTask
    \/ RbSpawnDelay
    \/ RbEndAdmission
    \/ RbCountdown
    \/ RbCountSleep

RbCleanup ==
    \/ RbCleanupStart
    \/ \E id \in TaskIds : RbWorkerDies(id)
    \/ RbCleanupKill

RbEnvironment ==
    \/ \E id \in TaskIds :
          \E how \in {"exit0", "exit1", "signaled", "nochild"} :
             RbWorkerEnds(id, how)
    \/ RbInterrupt

NextRb == RbLoop \/ RbCleanup \/ RbEnvironment

\* a task file of the Ruby variant, as an earlier run or an editor left it
InitRb ==
    /\ \E n \in 0..MaxExtTasks : \E st \in [1..n -> RbStatuses] :
          file = Doc([i \in 1..n |-> [id |-> i, status |-> st[i]]])
    /\ InitOther

SpecRb == InitRb /\ [][NextRb]_vars

\* ---- checkCommand (src/claude/hooks/block-dangerous-commands.ts) ----
\*
\* A command is given by the set of the patterns whose regex matches it
\* (positions in PATTERNS); no regex has the g flag, so regex.test keeps no
\* state.  A value of JavaScript is [kind, n]: a number n, undefined, or an
\* object (a function or Object.prototype).

MaxMatches == 2

\* the level of each entry of PATTERNS, in order
PatternLevels ==
    [i \in 1..26 |-> IF i <= 9 THEN "critical"
                     ELSE IF i <= 21 THEN "high" ELSE "strict"]

\* what a caller may pass as safetyLevel: a level, a string that names
\* nothing, or the name of a property every object inherits
LevelArgs == {"critical", "high", "strict", "paranoid", "constructor"}

Number(n) == [kind |-> "number", n |-> n]

\* LEVELS[key]: LEVELS is an object literal, so a key it does not own is
\* looked up in Object.prototype
LevelsGet(key) ==
    CASE key = "critical" -> Number(1)
      [] key = "high" -> Number(2)
      [] key = "strict" -> Number(3)
      [] key = "constructor" -> [kind |-> "object", n |-> 0]
      [] OTHER -> [kind |-> "undefined", n |-> 0]

\* a || b
OrElse(x, y) ==
    IF x.kind = "undefined" \/ (x.kind = "number" /\ x.n = 0) THEN y ELSE x

\* a <= b for a number a: an object converts to NaN, and every comparison
\* with NaN is false
LessEq(x, y) == y.kind = "number" /\ x.n <= y.n

\* checkCommand: pattern is the position of the returned pattern, 0 for null
CheckCommand(matches, safetyLevel) ==
    LET threshold == OrElse(LevelsGet(safetyLevel), Number(2))
        hits == {i \in DOMAIN PatternLevels :
                    /\ LessEq(LevelsGet(PatternLevels[i]), threshold)
                    /\ i \in matches}
    IN  IF hits = {} THEN [blocked |-> FALSE, pattern |-> 0]
        ELSE [blocked |-> TRUE,
              pattern |-> CHOOSE i \in hits : \A j \in hits : i <= j]

InitCheckCommand ==
    /\ \E m \in {x \in SUBSET (DOMAIN PatternLevels) :
                    Cardinality(x) <= MaxMatches} :
       \E l \in LevelArgs :
          fnIn = [matches |-> m, level |-> l]
    /\ fnOut = << >>
    /\ InitIdle

ApplyCheckCommand ==
    /\ pc = "fn"
    /\ fnOut = << >>
    /\ fnOut' = <<CheckCommand(fnIn.matches, fnIn.level)>>
    /\ UNCHANGED <<loopVars, fnIn>>

SpecCheckCommand == InitCheckCommand /\ [][ApplyCheckCommand]_vars

\* ---- either variant on the same task file ----

\* run() of ralph-loop.ts or run of ralph-loop.rb is started on a file whose
\* tasks are all pending; the position tells which one is running
NextBoth == Next \/ NextRb

SpecBoth == InitFresh /\ [][NextBoth]_vars

\* ---- an external editor, and workers that may be killed by a signal ----

NextExtSig ==
    \/ NextExt
    \/ \E id \in TaskIds : WorkerSignaled(id)

SpecExtSig == InitFresh /\ [][NextExtSig]_vars

\* ---- kill mode: a second process runs ralph-loop --kill ----
\*
\* The orchestrator process is alive until pc = "exited"; SIGTERM is handled
\* by its listener when the loop next awaits, SIGKILL ends it at once, with
\* no listener and no exit hook.

\* killAllProcesses up to its first sleepSync: SIGTERM to the process
\* named in the PID file, if that file exists and the process is alive
KillModeTerm ==
    /\ killer = "none"
    /\ IF pidFile /\ pc # "exited"
       THEN /\ sigPending' = TRUE
            /\ killer' = "term"
            /\ UNCHANGED pidFile
       ELSE /\ pidFile' = FALSE
            /\ killer' = "sweep"
            /\ UNCHANGED sigPending
    /\ UNCHANGED <<file, prd, subprocesses, pc, available, queue, tick,
                   shouldExit, cleaningUp, maxParallel, checkDelay, exitCode,
                   exitReason, logs, reported, termSent, killSent, started,
                   aliveAtAdmit, extWrites, extSinceReload, cleanupRuns,
                   inExitHook, env, runDir, fnIn, fnOut, waited>>

\* after the second of sleep: SIGKILL if the process is still alive, unlink
\* of the PID file, pkill -TERM of the workers
KillModeKill ==
    /\ killer = "term"
    /\ pc' = "exited"
    /\ pidFile' = FALSE
    /\ killer' = "sweep"
    /\ UNCHANGED <<file, prd, subprocesses, available, queue, tick, shouldExit,
                   cleaningUp, maxParallel, checkDelay, exitCode, exitReason,
                   logs, reported, termSent, killSent, started, aliveAtAdmit,
                   extWrites, extSinceReload, cleanupRuns, inExitHook,
                   sigPending, env, runDir, fnIn, fnOut, waited>>

\* after the next second: pkill -9 of the workers
KillModeSweep ==
    /\ killer = "sweep"
    /\ subprocesses' = [id \in TaskIds |->
                           IF subprocesses[id] = "alive" THEN "signaled"
                           ELSE subprocesses[id]]
    /\ killer' = "done"
    /\ UNCHANGED <<file, prd, pc, available, queue, tick, shouldExit,
                   cleaningUp, maxParallel, checkDelay, exitCode, exitReason,
                   logs, pidFile, reported, termSent, killSent, started,
                   aliveAtAdmit, extWrites, extSinceReload, cleanupRuns,
                   inExitHook, sigPending, env, runDir, fnIn, fnOut, waited>>

KillMode == KillModeTerm \/ KillModeKill \/ KillModeSweep

NextKill ==
    \/ LoopSpawning
    \/ Cleanup
    \/ ExitHook
    \/ WorkerExits
    \/ HandleSignal
    \/ KillMode

SpecKill == InitFresh /\ [][NextKill]_vars

\* ---- an external editor that also removes tasks ----

\* somebody else rewrites the file without one of its tasks
ExternalRemove(id) ==
    /\ pc \in LoopPcs
    /\ extWrites < MaxExtWrites
    /\ file.form = "doc"
    /\ Find(file, id) # 0
    /\ file' = [file EXCEPT !.fmt = "orig",
                            !.tasks = SelectSeq(file.tasks, LAMBDA t : t.id # id)]
    /\ extWrites' = extWrites + 1
    /\ extSinceReload' = TRUE
    /\ UNCHANGED <<prd, subprocesses, pc, available, queue, tick, shouldExit,
                   cleaningUp, maxParallel, checkDelay, exitCode, exitReason,
                   logs, pidFile, reported, termSent, killSent, started,
                   aliveAtAdmit, cleanupRuns, inExitHook, sigPending, env,
                   runDir, fnIn, fnOut, waited, killer>>

NextExtRemove ==
    \/ NextExt
    \/ \E id \in TaskIds : ExternalRemove(id)

SpecExtRemove == InitFresh /\ [][NextExtRemove]_vars

\* ---- a run on a file in which no task is marked running ----

InitNoRunning ==
    /\ Init
    /\ \A i \in DOMAIN file.tasks : file.tasks[i].status # "running"

\* the orchestrator, its workers and interrupts; nobody else writes the file
SpecNoRunning == InitNoRunning /\ [][Next]_vars

\* ======================================================================
\* Claims
\* ======================================================================

Max0(x) == IF x > 0 THEN x ELSE 0

HasStatus(d, s) == \E i \in DOMAIN d.tasks : d.tasks[i].status = s

\* C1: in every admission step the number of tasks started is at most
\* max(0, maxParallel - A), A being the number of tracked workers alive when
\* the step began; in particular nothing is started when A >= maxParallel.
C1_AdmissionBound == started <= Max0(maxParallel - aliveAtAdmit)

\* C1 witness: an admission step has ended in which a worker was alive at its
\* beginning, the budget was used up and a pending task had to wait.
C1_Witness ==
    /\ pc = "countdown"
    /\ aliveAtAdmit >= 1
    /\ started = Max0(maxParallel - aliveAtAdmit)
    /\ HasStatus(prd, "pending")

\* C2: without an external writer, every change of a task's status in the
\* file is pending -> running (by startTask, in the admission step),
\* running -> completed or failed (by the reap step) or running -> pending
\* (by the shutdown reset); so completed and failed are final and nothing
\* returns to pending while the loop runs.
C2_Change(old, new) ==
    \/ old = "pending" /\ new = "running" /\ pc = "admit"
    \/ old = "running" /\ new \in {"completed", "failed"} /\ pc = "reap"
    \/ old = "running" /\ new = "pending" /\ pc = "cl_reset"

C2_Transitions ==
    [][\A id \in TaskIds :
          StatusOf(file, id) # StatusOf(file', id)
             => C2_Change(StatusOf(file, id), StatusOf(file', id))]_vars

\* C2 witness: the run was interrupted after one task completed and while
\* another was running: the file holds a completed task and a reset one.
C2_Witness ==
    /\ pc = "exited"
    /\ exitReason = "signal"
    /\ HasStatus(file, "completed")
    /\ \E id \in Tracked : StatusOf(file, id) = "pending"

\* C3: at the terminal test (after reconcile and reap) mainLoop takes the
\* terminal branch if and only if the document has at least one task and no
\* task is pending or running; the exit code it gives is 0 when no task is
\* failed and 1 when some task is failed.
C3_RunOver(p) ==
    /\ Len(p.tasks) >= 1
    /\ \A i \in DOMAIN p.tasks : p.tasks[i].status \notin {"pending", "running"}

C3_TerminalIff ==
    [][pc = "check" =>
          /\ (exitReason' = "terminal") <=> C3_RunOver(prd)
          /\ (pc' = "admit") <=> ~C3_RunOver(prd)
          /\ exitReason' = "terminal" =>
                exitCode' = IF HasStatus(prd, "failed") THEN 1 ELSE 0]_vars

\* C3 witness: the terminal branch was taken with a failed and a completed task.
C3_Witness ==
    /\ exitReason = "terminal"
    /\ exitCode = 1
    /\ HasStatus(file, "completed")
    /\ HasStatus(file, "failed")

\* C4: when the shutdown path that an interrupt started has finished, no task
\* of the (parseable) file has status running, and every task that was
\* running when the interrupt arrived (this.prd still holds those statuses)
\* has status pending.
C4_InterruptResets ==
    (pc = "exited" /\ exitReason = "signal" /\ file.form = "doc") =>
        /\ ~HasStatus(file, "running")
        /\ \A i \in DOMAIN prd.tasks :
              prd.tasks[i].status = "running"
                 => StatusOf(file, prd.tasks[i].id) = "pending"

\* C4 witness: an interrupted run has exited and a task with a tracked
\* worker was running when the interrupt arrived.
C4_Witness ==
    /\ pc = "exited"
    /\ exitReason = "signal"
    /\ \E id \in Tracked : StatusOf(prd, id) = "running"

\* C5: processFinishedTask(id, exitCode) leaves the task's status in the
\* file completed for exit code 0 and failed otherwise, removes id from the
\* tracked map and keeps the task's log file; the reap step ends only when
\* it has done so for every worker that has an exit code.
C5_ProcessFinished ==
    [][pc = "reap" =>
          /\ \A id \in TaskIds :
                (HasExitCode(id) /\ subprocesses'[id] # subprocesses[id]) =>
                    /\ subprocesses'[id] = "none"
                    /\ StatusOf(file', id) =
                          (IF ExitCodeOf(id) = 0 THEN "completed" ELSE "failed")
                    /\ id \in logs => id \in logs'
          /\ pc' # "reap" => \A id \in TaskIds : ~HasExitCode(id)]_vars

\* C5 witness: the reap step is over; one reaped task is completed, another
\* failed, neither is tracked and both log files exist.
C5_Witness ==
    /\ pc = "check"
    /\ \E a, b \in TaskIds \ Tracked :
          /\ StatusOf(file, a) = "completed"
          /\ StatusOf(file, b) = "failed"
          /\ {a, b} \subseteq logs

C7_FailureDoesNotStop ==
    /\ [][\A id \in TaskIds :
            (pc = "reap" /\ subprocesses[id] = "exit1" /\ subprocesses'[id] = "none")
               => /\ StatusOf(file', id) = "failed"
                  /\ pc' = "reap"
                  /\ exitCode' = -1]_vars
    /\ []((pc = "countdown" /\ tick = 0 /\ HasStatus(prd, "pending"))
             => started >= maxParallel - aliveAtAdmit)
    /\ []((exitReason = "terminal" /\ HasStatus(file, "failed")) => exitCode = 1)

\* C7 witness: with maxParallel = 1 the first task failed, the two after it
\* were run and completed, and the run ended with exit code 1.
C7_Witness ==
    /\ pc = "exited"
    /\ exitReason = "terminal"
    /\ exitCode = 1
    /\ maxParallel = 1
    /\ logs = {1, 2, 3}
    /\ StatusOf(file, 1) = "failed"
    /\ StatusOf(file, 2) = "completed"
    /\ StatusOf(file, 3) = "completed"

\* C8 as stated: once run() has started the loop, a task has status running
\* in the file only if this orchestrator tracks a worker for it (a running
\* status left by an earlier process has been reset to pending).
C8_StaleRunningReset ==
    pc # "start" =>
        \A id \in TaskIds : StatusOf(file, id) = "running" => id \in Tracked

\* C9 as stated: when the run ends with no task pending or running but some
\* task not in a terminal status, the exit code is not 0.
C9_StuckRunExitsNonZero ==
    (exitReason = "terminal"
        /\ \E i \in DOMAIN file.tasks :
              file.tasks[i].status \notin {"completed", "failed"})
       => exitCode # 0

\* C10 as stated: the step in which a spawn failure is logged leaves the
\* statuses in the file as they were and the orchestrator running (no exit
\* code, no shutdown).
C10_SpawnFailureTolerated ==
    [][("spawn_error" \notin reported /\ "spawn_error" \in reported') =>
          /\ file' = file
          /\ exitCode' = -1
          /\ pc' \in LoopPcs]_vars

\* C11: reloadPrd on a file that is not valid JSON returns false without
\* throwing (the loop goes to its retry sleep, no exit code is given, no
\* shutdown begins) and leaves the document in memory as it was.
C11_InvalidReloadKeepsPrd ==
    [][(pc = "top" /\ pc' # "top" /\ file.form = "invalid") =>
          /\ prd' = prd
          /\ pc' = "retry_sleep"
          /\ exitCode' = -1
          /\ ~cleaningUp']_vars

\* C11 witness: a reload has failed on a file that is not JSON while the
\* document loaded before, with a running task, is still in memory.
C11_Witness ==
    /\ pc = "retry_sleep"
    /\ file.form = "invalid"
    /\ prd.form = "doc"
    /\ \E id \in Tracked : StatusOf(prd, id) = "running"

\* C12 as stated: the step that reloads a file which is not valid JSON or is
\* a document without a tasks array leaves the file and the tracked map as
\* they were, gives no exit code and goes to the retry sleep.
C12_FailedReloadSkipsCycle ==
    [][(pc = "top" /\ pc' # "top" /\ file.form # "doc") =>
          /\ file' = file
          /\ subprocesses' = subprocesses
          /\ exitCode' = -1
          /\ pc' = "retry_sleep"]_vars

\* C13: the body of cleanup is entered at most once in the life of the
\* process, although cleanup is called a second time by the exit hook after
\* the signal handler has run it.
C13_CleanupOnce == cleanupRuns <= 1

\* C13 witness: the signal handler ran cleanup with tracked workers, the exit
\* hook called cleanup again, and the process has ended.
C13_Witness ==
    /\ pc = "exited"
    /\ exitReason = "signal"
    /\ inExitHook
    /\ cleanupRuns = 1
    /\ Tracked # {}

C16_ResetFrame ==
    [][pc = "cl_reset" =>
          /\ DOMAIN file'.tasks = DOMAIN file.tasks
          /\ \A i \in DOMAIN file.tasks :
                /\ file'.tasks[i].id = file.tasks[i].id
                /\ file'.tasks[i].status =
                      (IF file.tasks[i].status = "running"
                       THEN "pending" ELSE file.tasks[i].status)
          /\ file'.completedAt = file.completedAt
          /\ file'.form = file.form
          /\ ~HasStatus(file, "running") => file' = file]_vars

\* C16 witness: the reset has run on a file with a completed, a failed and a
\* running task; the running one is pending now, the others are as before.
C16_Witness ==
    /\ pc \in {"exit_hook", "exited"}
    /\ HasStatus(file, "completed")
    /\ HasStatus(file, "failed")
    /\ \E id \in Tracked :
          StatusOf(prd, id) = "running" /\ StatusOf(file, id) = "pending"

\* C17: every start of an admission step takes the first task of the
\* document that is still pending; so pending tasks are started in document
\* order and none is skipped.
C17_DocumentOrder ==
    [][(pc = "admit" /\ started' = started + 1) =>
          \E i \in DOMAIN prd.tasks :
             /\ prd.tasks[i].status = "pending"
             /\ prd'.tasks[i].status = "running"
             /\ \A j \in DOMAIN prd.tasks :
                   j < i => prd.tasks[j].status # "pending"]_vars

\* C17 witness: of three pending tasks an admission step with two slots has
\* started the first and the second; the third waits.
C17_Witness ==
    /\ pc = "countdown"
    /\ started = 2
    /\ logs = {1, 2}
    /\ StatusOf(file, 1) = "running"
    /\ StatusOf(file, 2) = "running"
    /\ StatusOf(file, 3) = "pending"

C18_Scenario == maxParallel = 1 /\ Len(file.tasks) = 3

C14_InterruptLeadsToShutdown ==
    (sigPending /\ pc = "countdown") ~> cleaningUp

\* C19 as stated: on a file with at least one task, all pending, with every
\* worker exiting and no signal delivered, the loop eventually takes the
\* terminal branch with every task completed or failed.
C19_Terminates ==
    Len(file.tasks) >= 1 =>
        <>(\/ sigPending
           \/ /\ exitReason = "terminal"
              /\ \A i \in DOMAIN file.tasks :
                    file.tasks[i].status \in {"completed", "failed"})

\* C20 as stated: the run does not take the terminal branch while a task
\* without a status field has not been run.
C20_NoStatusIsPending ==
    exitReason = "terminal" =>
        \A i \in DOMAIN file.tasks :
            file.tasks[i].status = "none" => file.tasks[i].id \in logs

\* C21: completedAt is written only by the terminal branch (no task pending
\* or running, at least one task), which ends the run, so at most once per
\* run; and no step of the orchestrator removes a completedAt that the file
\* has.
C21_CompletedAt ==
    /\ [][file'.completedAt # file.completedAt =>
            /\ pc = "check"
            /\ C3_RunOver(prd)
            /\ exitReason = "none"
            /\ exitReason' = "terminal"
            /\ file'.completedAt = "new"]_vars
    /\ [][exitReason # "none" => exitReason' = exitReason]_vars
    /\ [][file.completedAt # "none" => file'.completedAt # "none"]_vars

\* C21 witness: a run that started a task (and so rewrote the file) has
\* taken the terminal branch, written completedAt and ended.
C21_Witness ==
    /\ pc = "exited"
    /\ exitReason = "terminal"
    /\ file.completedAt = "new"
    /\ logs # {}

\* C22: startTask and processFinishedTask rewrite the whole document right
\* after they set a status: after each such step the tasks in the file are
\* the tasks in memory, also when somebody else had changed the file.
C22_PersistedAtOnce ==
    [][(pc \in {"reap", "admit"} /\ prd'.tasks # prd.tasks) =>
          /\ file'.tasks = prd'.tasks
          /\ file'.completedAt = prd'.completedAt
          /\ file'.fmt = "pretty"]_vars

\* C22 witness: a task has just been started after an external write to the
\* file; file and memory hold the same tasks.
C22_Witness ==
    /\ pc = "spawn_delay"
    /\ extWrites = 1
    /\ started >= 1
    /\ file.tasks = prd.tasks
    /\ HasStatus(file, "running")

\* C23 as stated: the admission step and the sleep of an iteration use the
\* maxParallel and checkInterval of the document that the iteration has
\* reloaded.
C23_ConfigReread ==
    /\ [][(pc = "check" /\ pc' = "admit" /\ prd.maxParallel # -1) =>
            available' = prd.maxParallel - ActualRunning]_vars
    /\ [][(pc = "countdown" /\ pc' # pc /\ prd.checkInterval # -1) =>
            (pc' = "count_sleep" <=> tick < prd.checkInterval)]_vars

Contains(str, part) ==
    \E i \in 1..(Len(str) - Len(part) + 1) :
        SubSeq(str, i, i + Len(part) - 1) = part

RECURSIVE JsonUnescape(_)
\* what JSON.parse reads between the quotes of a string literal
JsonUnescape(b) ==
    IF b = << >> THEN [ok |-> TRUE, val |-> << >>]
    ELSE IF Head(b) = "\"" THEN [ok |-> FALSE, val |-> << >>]
    ELSE IF Head(b) = "\\"
         THEN IF Len(b) < 2 THEN [ok |-> FALSE, val |-> << >>]
              ELSE LET r == JsonUnescape(SubSeq(b, 3, Len(b)))
                   IN  [ok |-> r.ok,
                        val |-> <<IF b[2] = "n" THEN "\n" ELSE b[2]>> \o r.val]
         ELSE LET r == JsonUnescape(Tail(b))
              IN  [ok |-> r.ok, val |-> <<Head(b)>> \o r.val]

JsonUnquote(lit) ==
    IF Len(lit) < 2 \/ lit[1] # "\"" \/ lit[Len(lit)] # "\""
    THEN [ok |-> FALSE, val |-> << >>]
    ELSE JsonUnescape(SubSeq(lit, 2, Len(lit) - 1))

\* the composed input without its last n characters, and those characters
InputHead(w, n) == SubSeq(w, 1, Len(w) - n)

InputTail(w, n) == SubSeq(w, Len(w) - n + 1, Len(w))

\* C24 (as amended): the worker input is a header block followed by the
\* prompt file's text as decoded from UTF-8, whole and unchanged; the header
\* holds the JSON serialisation of the task, in which the id member is a
\* JSON string literal that reads back as the task's id.  The id itself
\* appears in the header when it has no character that JSON escapes, and
\* the prompt's bytes are kept as they are when they are valid UTF-8.
C24_WorkerInput ==
    fnOut # << >> =>
        LET w    == fnOut[1]
            n    == Len(fnIn.prompt)
            id   == fnIn.task.id
            head == InputHead(w, n)
            key  == IdKey \o <<":", " ">>
        IN  /\ Len(w) >= n
            /\ InputTail(w, n) = Utf8Decode(fnIn.prompt)
            /\ \E i \in 1..Len(head) : \E j \in i..Len(head) :
                  /\ i > Len(key)
                  /\ SubSeq(head, i - Len(key), i - 1) = key
                  /\ JsonUnquote(SubSeq(head, i, j)) = [ok |-> TRUE, val |-> id]
            /\ (\A k \in DOMAIN id : id[k] \notin {"\"", "\\"})
                  => Contains(head, id)
            /\ (\A k \in DOMAIN fnIn.prompt : fnIn.prompt[k] # "xFF")
                  => InputTail(w, n) = fnIn.prompt

\* C24 witness: an input was composed for a task whose id has a quote in it
\* and a prompt file of two bytes, one of them not valid UTF-8.
C24_Witness ==
    /\ fnOut # << >>
    /\ Len(fnIn.task.id) = 2
    /\ \E k \in DOMAIN fnIn.task.id : fnIn.task.id[k] = "\""
    /\ Len(fnIn.prompt) = 2
    /\ \E k \in DOMAIN fnIn.prompt : fnIn.prompt[k] = "xFF"

\* C24 as stated: for every task and every prompt file content the header
\* block contains the task's id and is followed by the content of the prompt
\* file, unmodified.
C24_Verbatim ==
    fnOut # << >> =>
        /\ Contains(InputHead(fnOut[1], Len(fnIn.prompt)), fnIn.task.id)
        /\ InputTail(fnOut[1], Len(fnIn.prompt)) = fnIn.prompt

C26_FatalAtStartup ==
    [][~(env.marker /\ env.claude /\ env.prdFile /\ env.promptFile) =>
          /\ pc' = "exited"
          /\ exitCode' = 1
          /\ ~runDir'
          /\ ~pidFile'
          /\ file' = file
          /\ started' = 0
          /\ logs' = {}
          /\ \A id \in TaskIds : subprocesses'[id] = "none"]_vars

\* C26 witness: the orchestrator has exited with code 1 in a directory where
\* only the prompt file is missing, on a task file with a pending task.
C26_Witness ==
    /\ pc = "exited"
    /\ exitCode = 1
    /\ env = [marker |-> TRUE, claude |-> TRUE, prdFile |-> TRUE,
              promptFile |-> FALSE]
    /\ HasStatus(file, "pending")
    /\ ~runDir
    /\ ~pidFile

\* the pieces of a rendered line that name a category, in their order
LabelsOf(line) ==
    SelectSeq(line, LAMBDA x : x \in {" running", " failed", " pending"})

\* C28: the status line names a category exactly when its count is above
\* 0, in the order running, failed, pending, each label right after its
\* count, with one separator between two parts and none at either end; with
\* all three counts 0 it is the empty string.
C28_StatusLine ==
    fnOut # << >> =>
        LET line == fnOut[1]
            want == SelectSeq(<<" running", " failed", " pending">>,
                       LAMBDA l : \/ l = " running" /\ fnIn.running > 0
                                  \/ l = " failed" /\ fnIn.failed > 0
                                  \/ l = " pending" /\ fnIn.pending > 0)
            seps == SelectSeq(line, LAMBDA x : x = " | ")
        IN  /\ LabelsOf(line) = want
            /\ Len(seps) = Max0(Len(want) - 1)
            /\ \A i \in DOMAIN line :
                  /\ line[i] = " running" => i > 1 /\ line[i-1] = ToString(fnIn.running)
                  /\ line[i] = " failed" => i > 1 /\ line[i-1] = ToString(fnIn.failed)
                  /\ line[i] = " pending" => i > 1 /\ line[i-1] = ToString(fnIn.pending)
                  /\ line[i] = " | " =>
                        /\ 1 < i /\ i < Len(line)
                        /\ line[i-1] = "reset"
                        /\ line[i+1] \in {"cyan", "red", "gray"}
            /\ (fnIn.running = 0 /\ fnIn.failed = 0 /\ fnIn.pending = 0)
                  => line = << >>

\* C28 witness: a line rendered for 2 running, 0 failed and 1 pending.
C28_Witness ==
    /\ fnOut # << >>
    /\ fnIn = [running |-> 2, failed |-> 0, pending |-> 1]
    /\ fnOut[1] = <<"cyan", "2", " running", "reset", " | ",
                    "gray", "1", " pending", "reset">>

\* C28 witness, second case: the empty line for three counts of 0.
C28_WitnessEmpty ==
    /\ fnOut = << << >> >>
    /\ fnIn = [running |-> 0, failed |-> 0, pending |-> 0]

\* place of a status among the groups of the task list
GroupRank(status) ==
    CASE status = "running" -> 1
      [] status = "failed" -> 2
      [] status = "pending" -> 3
      [] OTHER -> 4

\* C29: the task list has a row only for a running, failed or pending task,
\* never for a completed one; running rows come before failed rows before
\* pending rows, rows of one group in document order, no task left out in
\* front of a task that is shown; there are at most maxDisplay rows; a title
\* of more than 40 characters is printed as its first 37 characters and
\* "...", any other title as it is.
C29_TaskList ==
    fnOut # << >> =>
        LET rows == fnOut[1]
            tasks == fnIn.prd.tasks
            \* ids are the positions in the document
            Before(i, j) ==
                \/ GroupRank(tasks[i].status) < GroupRank(tasks[j].status)
                \/ /\ tasks[i].status = tasks[j].status
                   /\ i < j
            Shown == {rows[k].id : k \in DOMAIN rows}
        IN  /\ Len(rows) <= fnIn.maxDisplay
            /\ \A k \in DOMAIN rows :
                  /\ rows[k].id \in DOMAIN tasks
                  /\ tasks[rows[k].id].status \in {"running", "failed", "pending"}
                  /\ rows[k].status[2] \in
                        {tasks[rows[k].id].status, "failed "}
                  /\ rows[k].status[2] = "failed "
                        <=> tasks[rows[k].id].status = "failed"
            /\ \A k, l \in DOMAIN rows : k < l => Before(rows[k].id, rows[l].id)
            /\ \A j \in Shown : \A i \in DOMAIN tasks :
                  Before(i, j) => i \in Shown
            /\ Len(rows) < fnIn.maxDisplay =>
                  \A i \in DOMAIN tasks :
                     tasks[i].status \in {"running", "failed", "pending"}
                        => i \in Shown
            /\ \A k \in DOMAIN rows :
                  LET t == tasks[rows[k].id].title
                  IN  t # << >> =>
                        IF Len(t[1]) > 40
                        THEN /\ Len(rows[k].title) = 40
                             /\ SubSeq(rows[k].title, 1, 37) = SubSeq(t[1], 1, 37)
                             /\ SubSeq(rows[k].title, 38, 40) = <<".", ".", ".">>
                        ELSE rows[k].title = t[1]

\* C29 witness: a list of at most 2 rows was printed for a document of a
\* pending task with a 41-character title, a completed task and a running
\* one: the running task's row, then the pending task's with the cut title.
C29_Witness ==
    /\ fnOut # << >>
    /\ fnIn.maxDisplay = 2
    /\ Len(fnIn.prd.tasks) = 3
    /\ fnIn.prd.tasks[1].status = "pending"
    /\ fnIn.prd.tasks[1].title = <<TitleOfLen(41)>>
    /\ fnIn.prd.tasks[2].status = "completed"
    /\ fnIn.prd.tasks[3].status = "running"
    /\ Len(fnOut[1]) = 2
    /\ fnOut[1][1].id = 3
    /\ fnOut[1][2].id = 1
    /\ Len(fnOut[1][2].title) = 40
    /\ fnOut[1][2].title[37] = "37"
    /\ fnOut[1][2].title[38] = "."

\* round(n / d) for integers n >= 0, d > 0, a half rounded up
RoundDiv(n, d) == (2 * n + d) \div (2 * d)

\* C27: for 0 <= completed <= total, total > 0 and width >= 0 the progress
\* bar reports round(100 * completed / total) percent and is
\* round(width * completed / total) filled blocks followed by empty blocks
\* up to width; for total = 0 it reports 0% (0/0) over width empty blocks.
C27_ProgressBar ==
    fnOut # << >> =>
        LET c == fnIn.completed
            t == fnIn.total
            w == fnIn.width
            out == fnOut[1]
        IN  IF t = 0
            THEN out = [bar |-> [i \in 1..w |-> "-"], percent |-> 0,
                        completed |-> 0, total |-> 0]
            ELSE /\ out.percent = RoundDiv(100 * c, t)
                 /\ out.bar = [i \in 1..w |->
                                 IF i <= RoundDiv(w * c, t) THEN "#" ELSE "-"]
                 /\ out.completed = c
                 /\ out.total = t

\* C30: when check_running_tasks waits for a tracked worker that is no
\* longer a child of the orchestrator (ECHILD), that same call drops the
\* worker from @running_pids and writes "passed" for its task, in memory and
\* in the file.
C30_EchildFinished ==
    [][\A id \in TaskIds :
          (pc = "rb_reap" /\ pc' = "rb_check" /\ subprocesses[id] = "nochild") =>
             /\ subprocesses'[id] = "none"
             /\ waited'[id] = "nochild"
             /\ Find(prd, id) # 0 =>
                   /\ StatusOf(prd', id) = "passed"
                   /\ StatusOf(file', id) = "passed"]_vars

\* C30 witness: check_running_tasks has just found ECHILD for the worker
\* of a task; the worker is no longer tracked and the file says passed.
C30_Witness ==
    /\ pc = "rb_check"
    /\ \E id \in TaskIds :
          /\ waited[id] = "nochild"
          /\ subprocesses[id] = "none"
          /\ StatusOf(prd, id) = "passed"
          /\ StatusOf(file, id) = "passed"

\* rank of a safety level, an unrecognised one counting as high
LevelRank(l) ==
    CASE l = "critical" -> 1
      [] l = "strict" -> 3
      [] OTHER -> 2

\* C31: checkCommand reports blocked exactly when a matching pattern has a
\* level rank at most the rank of the given level (critical < high <
\* strict, an unrecognised level counting as high), and then returns the
\* first such pattern of PATTERNS.
C31_CheckCommand ==
    fnOut # << >> =>
        LET hits == {i \in fnIn.matches :
                        LevelRank(PatternLevels[i]) <= LevelRank(fnIn.level)}
        IN  /\ fnOut[1].blocked <=> hits # {}
            /\ fnOut[1].blocked =>
                  /\ fnOut[1].pattern \in hits
                  /\ \A j \in hits : fnOut[1].pattern <= j
            /\ ~fnOut[1].blocked => fnOut[1].pattern = 0

\* C32: the two variants persist the same status transitions; in
\* particular, whichever variant was interrupted, the file it leaves at its
\* exit has no task with status running (the shutdown path has put every
\* such task back to pending).
C32_SameShutdown ==
    (pc = "exited" /\ exitReason = "signal") => ~HasStatus(file, "running")

\* C33: startTask is never called for a task id that has an entry in
\* this.subprocesses, also when somebody else writes the file.
C33_NoStartOnTracked ==
    [][(pc = "admit" /\ pc' = "spawn_delay") => Head(queue) \notin Tracked]_vars

\* C34: when mainLoop takes the terminal branch, no tracked worker is
\* alive, also when somebody else writes the file between the cycles.
C34_TerminalWithoutWorkers ==
    [][(exitReason = "none" /\ exitReason' = "terminal") =>
          \A id \in TaskIds : ~ProcessAlive(id)]_vars

\* C35: once kill mode has run and the orchestrator it was aimed at has
\* begun its cleanup and is gone, no task of the orchestrator's file has
\* status running, however the steps of kill mode interleave with those of
\* the cleanup.
C35_KillModeLeavesNoRunning ==
    (killer = "done" /\ pc = "exited" /\ cleaningUp)
        => ~HasStatus(file, "running")

\* C36: the shutdown after an interrupt reaps nothing (no entry leaves
\* this.subprocesses once cleanup has begun), and when it is over the task of
\* every worker that had exited with a code without having been reaped is
\* pending in the file: its outcome is not recorded.
C36_InterruptBeforeReap ==
    /\ []((pc = "exited" /\ exitReason = "signal") =>
            \A id \in TaskIds :
               HasExitCode(id) => StatusOf(file, id) = "pending")
    /\ [][cleaningUp => \A id \in TaskIds : subprocesses'[id] = "none"
                                               => subprocesses[id] = "none"]_vars

\* C36 witness: an interrupted run is over; a worker that had exited with
\* code 0 is still in this.subprocesses and its task is pending in the file.
C36_Witness ==
    /\ pc = "exited"
    /\ exitReason = "signal"
    /\ \E id \in TaskIds :
          /\ subprocesses[id] = "exit0"
          /\ StatusOf(prd, id) = "running"
          /\ StatusOf(file, id) = "pending"

\* C37: the reap of a worker that has exited sets the task's status from
\* the exit code alone (completed for 0, failed otherwise), whatever the
\* reloaded document says, and saves; when the document has no task of that
\* id the entry is removed and neither the document nor the file changes.
C37_ReapFromExitCode ==
    [][\A id \in TaskIds :
          (pc = "reap" /\ HasExitCode(id) /\ subprocesses'[id] = "none") =>
             IF Find(prd, id) # 0
             THEN /\ StatusOf(prd', id) =
                        (IF subprocesses[id] = "exit0" THEN "completed"
                         ELSE "failed")
                  /\ file'.tasks = prd'.tasks
             ELSE /\ prd' = prd
                  /\ file' = file]_vars

\* C37 witness: the only task of the file was started, an external editor
\* wrote another status for it, and the reap has overwritten that with
\* failed from the exit code.
C37_Witness ==
    /\ pc = "reap"
    /\ Len(file.tasks) = 1
    /\ extWrites = 1
    /\ ~extSinceReload
    /\ 1 \in logs
    /\ subprocesses[1] = "none"
    /\ StatusOf(file, 1) = "failed"

\* C37 witness, second case: the entry of a worker is gone although the
\* document has no task of its id, and the file is as the editor left it.
C37_WitnessRemoved ==
    /\ pc = "reap"
    /\ \E id \in logs :
          /\ subprocesses[id] = "none"
          /\ Find(prd, id) = 0
          /\ Find(file, id) = 0
    /\ file.fmt = "orig"

\* C37 witness, first case before the step: the worker of a task has exited
\* with a non-zero code while the reloaded document says completed.
C37_WitnessBefore ==
    /\ pc = "reap"
    /\ \E id \in TaskIds :
          /\ subprocesses[id] = "exit1"
          /\ StatusOf(prd, id) = "completed"

\* C38: a worker that was terminated by a signal is never recorded as
\* successful: the step that collects it does not leave its task passed
\* (completed in the TypeScript variant).
C38_SignaledNeverSuccessful ==
    [][\A id \in TaskIds :
          (subprocesses[id] = "signaled" /\ subprocesses'[id] = "none"
             /\ Find(prd, id) # 0)
          => StatusOf(prd', id) \notin {"passed", "completed"}]_vars

\* C39: with no external writer and no task running at the start, whenever
\* the loop is asleep (between cycles, and after a start) a task id is in
\* the tracked-process map exactly when the file says that task is running.
C39_TrackedIffRunning ==
    pc \in AwaitPcs =>
       \A id \in TaskIds : id \in Tracked <=> StatusOf(file, id) = "running"

\* C39 witness: asleep between cycles with one task tracked and running and
\* another one reaped, untracked and completed.
C39_Witness ==
    /\ pc = "count_sleep"
    /\ \E a, b \in TaskIds :
          /\ a \in Tracked
          /\ StatusOf(file, a) = "running"
          /\ b \in logs \ Tracked
          /\ StatusOf(file, b) = "completed"

\* C40: on a task file whose tasks array is empty the loop never takes the
\* terminal branch and never starts a worker, and it keeps going round
\* (reload, render, sleep) for as long as it is not interrupted.
C40_EmptyKeepsIterating ==
    Len(file.tasks) = 0 =>
       /\ [](exitReason # "terminal" /\ Tracked = {})
       /\ []<>(pc = "top" \/ exitReason = "signal")
       /\ []<>(pc = "count_sleep" \/ exitReason = "signal")

\* C40, the part about the branches alone: on an empty tasks array there is
\* no terminal exit and no worker, and the loop is left by an interrupt only.
C40_EmptyNeverTerminal ==
    (Len(file.tasks) = 0 /\ pc # "start") =>
       /\ exitReason \in {"none", "signal"}
       /\ Tracked = {}
       /\ logs = {}
       /\ pc \notin LoopPcs => exitReason = "signal"

\* C40: a full round on an empty tasks array has been made and the next one
\* begins.
C40_EmptyRound ==
    /\ Len(file.tasks) = 0
    /\ pc = "top"
    /\ tick = 1
    /\ exitReason = "none"

====
